---- MODULE Spec2Model ----
(***************************************************************************)
(* Gaze estimation and calibration pipeline of ReaRead.                    *)
(*                                                                         *)
(* The repository holds two variants of MediaPipeTracker:                  *)
(*   "linear"  src/src/eye/MediaPipeTracker.ts  (scale + offset per axis)  *)
(*   "affine"  src/docs/feature_map.md:120-689  (2x3 affine matrix,        *)
(*             head-pose compensation, isCalibrated flag)                  *)
(* One tracker instance is modelled; its variant is fixed at construction. *)
(*                                                                         *)
(* JavaScript numbers are modelled as exact rationals <<n, d>> (d > 0,     *)
(* lowest terms) together with the IEEE special values                     *)
(*   <<1, 0>> = +Infinity, <<-1, 0>> = -Infinity, <<0, 0>> = NaN.          *)
(* Rounding is not modelled; division by zero, NaN propagation and NaN     *)
(* comparisons are.  No divisor in the code can be -0 (every divisor is a  *)
(* Math.abs result, a length, a guarded value or a viewport size), so the  *)
(* sign of zero is not modelled.                                           *)
(***************************************************************************)
EXTENDS Integers, Sequences, FiniteSets, TLC

\* ------------------------------------------------------------------------
\* JavaScript Number arithmetic
\* ------------------------------------------------------------------------

RECURSIVE GCD(_, _)
GCD(a, b) == IF b = 0 THEN a ELSE GCD(b, a % b)

IAbs(i) == IF i < 0 THEN -i ELSE i

ISign(i) == IF i < 0 THEN -1 ELSE IF i > 0 THEN 1 ELSE 0

\* n/d in lowest terms with a positive denominator, g the gcd of |n| and |d|.
Reduce(n, d, g) ==
  IF d < 0 THEN <<-(n \div g), -(d \div g)>> ELSE <<n \div g, d \div g>>

\* The number n/d for integers n, d; d = 0 gives the IEEE special value.
Q(n, d) == IF d = 0 THEN <<ISign(n), 0>> ELSE Reduce(n, d, GCD(IAbs(n), IAbs(d)))

I(n) == <<n, 1>>

NaN == <<0, 0>>

IsNaN(x) == x[1] = 0 /\ x[2] = 0

IsFinite(x) == x[2] > 0

IsInf(x) == x[2] = 0 /\ x[1] # 0

Neg(x) == <<-x[1], x[2]>>

AddFinite(x, y, l) == Q(x[1] * (l \div x[2]) + y[1] * (l \div y[2]), l)

Add(x, y) ==
  IF IsNaN(x) \/ IsNaN(y) THEN NaN
  ELSE IF IsInf(x) /\ IsInf(y) THEN (IF x = y THEN x ELSE NaN)
  ELSE IF IsInf(x) THEN x
  ELSE IF IsInf(y) THEN y
  ELSE AddFinite(x, y, (x[2] \div GCD(x[2], y[2])) * y[2])

Sub(x, y) == Add(x, Neg(y))

MulFinite(x, y, g1, g2) ==
  <<(x[1] \div g1) * (y[1] \div g2), (x[2] \div g2) * (y[2] \div g1)>>

Mul(x, y) ==
  IF IsNaN(x) \/ IsNaN(y) THEN NaN
  ELSE IF IsInf(x) \/ IsInf(y) THEN <<ISign(x[1]) * ISign(y[1]), 0>>
  ELSE MulFinite(x, y, GCD(IAbs(x[1]), y[2]), GCD(IAbs(y[1]), x[2]))

\* 1/y for a finite non-zero y
Recip(y) == IF y[1] < 0 THEN <<-y[2], -y[1]>> ELSE <<y[2], y[1]>>

Div(x, y) ==
  IF IsNaN(x) \/ IsNaN(y) THEN NaN
  ELSE IF IsInf(y) THEN (IF IsInf(x) THEN NaN ELSE I(0))
  ELSE IF y[1] = 0 THEN <<ISign(x[1]), 0>>
  ELSE IF IsInf(x) THEN <<ISign(x[1]) * ISign(y[1]), 0>>
  ELSE Mul(x, Recip(y))

\* x < y; false when either side is NaN.
Lt(x, y) ==
  IF IsNaN(x) \/ IsNaN(y) THEN FALSE
  ELSE IF IsInf(x) \/ IsInf(y)
       THEN (IF IsInf(x) /\ IsInf(y) THEN x[1] < y[1]
             ELSE IF IsInf(x) THEN x[1] < 0
             ELSE y[1] > 0)
  ELSE x[1] * y[2] < y[1] * x[2]

Gt(x, y) == Lt(y, x)

\* x <= y; false when either side is NaN.
Le(x, y) == ~IsNaN(x) /\ ~IsNaN(y) /\ ~Lt(y, x)

\* x === y; NaN equals nothing.
StrictEq(x, y) == ~IsNaN(x) /\ ~IsNaN(y) /\ x = y

\* The largest r in lo..hi with r * r <= n.
RECURSIVE ISqrtBetween(_, _, _)
ISqrtBetween(n, lo, hi) ==
  IF lo >= hi THEN lo
  ELSE IF ((lo + hi + 1) \div 2) * ((lo + hi + 1) \div 2) <= n
       THEN ISqrtBetween(n, (lo + hi + 1) \div 2, hi)
       ELSE ISqrtBetween(n, lo, ((lo + hi + 1) \div 2) - 1)

ISqrt(n) == ISqrtBetween(n, 0, IF n < 46340 THEN n ELSE 46340)

\* Math.sqrt: NaN below zero, exact on the square of a rational; any other
\* finite value is rounded down to an integer.
MathSqrt(x) ==
  IF IsNaN(x) \/ x = <<-1, 0>> \/ (IsFinite(x) /\ x[1] < 0) THEN NaN
  ELSE IF ~IsFinite(x) THEN x
  ELSE IF ISqrt(x[1]) * ISqrt(x[1]) = x[1] /\ ISqrt(x[2]) * ISqrt(x[2]) = x[2]
       THEN <<ISqrt(x[1]), ISqrt(x[2])>>
       ELSE I(ISqrt(x[1] \div x[2]))

MathAbs(x) == <<IAbs(x[1]), x[2]>>

MathMax(x, y) ==
  IF IsNaN(x) \/ IsNaN(y) THEN NaN ELSE IF Lt(x, y) THEN y ELSE x

MathMin(x, y) ==
  IF IsNaN(x) \/ IsNaN(y) THEN NaN ELSE IF Lt(y, x) THEN y ELSE x

\* Math.max(lo, Math.min(hi, x))
Clamp(lo, hi, x) == MathMax(lo, MathMin(hi, x))

\* (a + b) / 2
Half(x) == Div(x, I(2))

\* arr.reduce((sum, v) => sum + v, 0)
RECURSIVE SumTo(_, _)
SumTo(s, k) == IF k = 0 THEN I(0) ELSE Add(SumTo(s, k - 1), s[k])

SumSeq(s) == SumTo(s, Len(s))

\* arr.reduce(sum) / arr.length
Mean(s) == Div(SumSeq(s), I(Len(s)))

\* arr.slice(0, k): the oldest k entries instead of the latest.
SliceFirst(s, k) == IF Len(s) <= k THEN s ELSE SubSeq(s, 1, k)

\* arr.slice(-k)
SliceLast(s, k) == IF Len(s) <= k THEN s ELSE SubSeq(s, Len(s) - k + 1, Len(s))

\* arr.shift() result: the array without its first element
Shift(s) == Tail(s)

\* arr.push(e) without the shift.
PushWindowNoEvict(hist, e, window) == Append(hist, e)

\* arr.push(e), then arr.shift() when longer than the window
PushWindow(hist, e, window) ==
  IF Len(hist) + 1 > window THEN Shift(Append(hist, e)) ELSE Append(hist, e)

\* ------------------------------------------------------------------------
\* Landmark frames (SandboxGazeData)
\* ------------------------------------------------------------------------

Pt(px, py) == [x |-> px, y |-> py]

\* The landmark indices handleGazeData reads.
UsedLandmarks == {4, 10, 33, 133, 145, 152, 159, 234, 263, 362, 374, 386, 454}

\* A frame whose left eye is wL wide and hL high, whose right eye is wR wide
\* and hR high, whose irises sit at (ox, oy) half-dimensions from the eye
\* centres, and whose nose tip is at (noseX, noseY).  len is landmarks.length;
\* hasLm, hasL, hasR say whether landmarks, leftIris, rightIris are present.
MkFrame(hasLm, len, hasL, hasR, wL, wR, hL, hR, ox, oy, noseX, noseY) ==
  LET lx == Q(3, 10)
      rx == Q(6, 10)
      ty == Q(4, 10)
      two == I(2)
      lm == (4   :> Pt(noseX, noseY)) @@
            (10  :> Pt(Q(1, 2), Q(3, 10))) @@
            (152 :> Pt(Q(1, 2), Q(7, 10))) @@
            (234 :> Pt(Q(3, 10), Q(1, 2))) @@
            (454 :> Pt(Q(7, 10), Q(1, 2))) @@
            (33  :> Pt(lx, ty)) @@
            (133 :> Pt(Add(lx, wL), ty)) @@
            (362 :> Pt(rx, ty)) @@
            (263 :> Pt(Add(rx, wR), ty)) @@
            (159 :> Pt(lx, ty)) @@
            (145 :> Pt(lx, Add(ty, hL))) @@
            (386 :> Pt(rx, ty)) @@
            (374 :> Pt(rx, Add(ty, hR)))
  IN  [hasLandmarks |-> hasLm,
       length       |-> len,
       landmarks    |-> lm,
       hasLeftIris  |-> hasL,
       hasRightIris |-> hasR,
       leftIris     |-> Pt(Add(Add(lx, Div(wL, two)), Mul(ox, Div(wL, two))),
                           Add(Add(ty, Div(hL, two)), Mul(oy, Div(hL, two)))),
       rightIris    |-> Pt(Add(Add(rx, Div(wR, two)), Mul(ox, Div(wR, two))),
                           Add(Add(ty, Div(hR, two)), Mul(oy, Div(hR, two))))]

EyeW == Q(1, 10)

HOpen == Q(4, 100)

HEdge == Q(15, 1000)

HBlink == Q(1, 100)

Mid == Q(1, 2)

\* Open eyes, gaze offset (1/5, 1/10), head straight.
FOpenA == MkFrame(TRUE, 478, TRUE, TRUE, EyeW, EyeW, HEdge, HEdge, Q(1, 5), Q(1, 10), Mid, Mid)

\* Open eyes, gaze far to one side (maps beyond the screen edge), head turned.
FOpenB == MkFrame(TRUE, 478, TRUE, TRUE, EyeW, EyeW, HOpen, HOpen, Q(-4, 5), Q(-1, 5), Q(11, 20), Mid)

\* Aspect ratio exactly 0.15: not a blink.
FEdge == MkFrame(TRUE, 478, TRUE, TRUE, EyeW, EyeW, HEdge, HEdge, I(0), I(0), Mid, Mid)

\* Aspect ratio 0.1: a blink.
FBlink == MkFrame(TRUE, 478, TRUE, TRUE, EyeW, EyeW, HBlink, HBlink, Q(1, 5), I(0), Mid, Mid)

\* 477 landmarks.
FShort == MkFrame(TRUE, 477, TRUE, TRUE, EyeW, EyeW, HOpen, HOpen, Q(1, 5), I(0), Mid, Mid)

\* landmarks missing altogether.
FNoLandmarks == MkFrame(FALSE, 0, TRUE, TRUE, EyeW, EyeW, HOpen, HOpen, Q(1, 5), I(0), Mid, Mid)

FNoLeftIris == MkFrame(TRUE, 478, FALSE, TRUE, EyeW, EyeW, HOpen, HOpen, Q(1, 5), I(0), Mid, Mid)

FNoRightIris == MkFrame(TRUE, 478, TRUE, FALSE, EyeW, EyeW, HOpen, HOpen, Q(1, 5), I(0), Mid, Mid)

\* All eye landmarks coincide: eye width 0 and eye height 0.
FDegenerate == MkFrame(TRUE, 478, TRUE, TRUE, I(0), I(0), I(0), I(0), I(0), I(0), Mid, Mid)

\* ------------------------------------------------------------------------
\* Tracker state
\* ------------------------------------------------------------------------

VARIABLES
  variant,            \* "linear" | "affine": which MediaPipeTracker this is
  hasCallback,        \* config.onGazeUpdate is set
  bridgeReady,        \* sandboxBridge is non-null (initialize() has run)
  isRunning,
  frameCounter,
  calibrationMatrix,
  isCalibrated,       \* affine variant only; stays FALSE in the linear one
  gazeHistory,
  eyeHeightHistory,
  stableEyeHeight,
  viewport,           \* <<window.innerWidth, window.innerHeight>>
  emitted,            \* observer: number of onGazeUpdate calls so far
  lastEmit,           \* observer: the GazePoint of the latest call, with the viewport it was emitted under
  lastOp,             \* observer: the latest handleGazeData / applyCalibration call and its input
  calibrations,       \* observer: number of applyCalibration calls so far
  sameRun,            \* observer: length of the current run of consecutive emitting frames that pushed the same clamped point
  arrivals,           \* observer: every frame that passed the blink gate, oldest first, with its clamped point and eye height, the transform in force and the GazePoint emitted
  calPc,              \* CalibrationSystem: where the current runCalibration / runValidation call stands
  countdown,          \* CalibrationSystem.showPreparationScreen: countdown
  targetPoints,             \* runMainCalibration: targetPoints; runValidation: validationPoints
  currentIndex,       \* runMainCalibration / runValidation: currentIndex
  errors,             \* runValidation: errors
  validation,         \* observer: the value runValidation's promise resolved with
  captureLog,         \* observer: the onGazeCapture calls of the current run, each with its target, whether it has resolved, and its value
  runs,               \* observer: number of runCalibration / runValidation calls so far
  resolutions,        \* observer: number of times the current run's promise was resolved
  currentHeadPose,    \* CalibrationSystem: currentHeadPose, NoPose for null
  initialHeadPose,    \* runMainCalibration, showNextPoint: initialHeadPose of the point shown
  headCheckInterval,  \* runMainCalibration, showNextPoint: the 100 ms interval is armed
  headIndicator,      \* runMainCalibration: the overlay's head indicator, "none" | "ok" | "warn"
  currentGaze,        \* content script: currentGaze
  samples,            \* content script, onGazeCapture: samples
  calibrationData,    \* content script, runCalibration: calibrationData
  gazeStream,         \* environment: which gaze objects arrive during the captures of the current run
  ticks,              \* observer: interval callbacks of the current capture so far
  capturePc,          \* content script, onGazeCapture: "none" | "settling" | "polling"
  validSamples,       \* observer: validSamples (the averaged set) of the latest completed capture
  smoothedX,          \* content script, cursor conditioner: smoothedX
  smoothedY,          \* content script, cursor conditioner: smoothedY
  displayX,           \* content script, cursor conditioner: displayX
  displayY,           \* content script, cursor conditioner: displayY
  isFirstGaze,        \* content script, cursor conditioner: isFirstGaze
  frameSkip,          \* content script, cursor conditioner: frameSkip
  gazeUpdates,        \* observer: handleGazeUpdate calls so far
  iframe,             \* SandboxBridge: iframe (and its contentWindow) is non-null
  isMediaPipeReady,   \* SandboxBridge: isMediaPipeReady
  messageQueue,       \* SandboxBridge: messageQueue
  readyPromise,       \* SandboxBridge: readyPromise, "pending" | "resolved"
  initPromise,        \* SandboxBridge: the promise of initialize(), "none" | "pending" | "resolved" | "rejected"
  startPc,            \* SandboxBridge: the latest start() call, "none" | "waiting" | "done"
  transferring,       \* SandboxBridge: the frame transfer loop of startVideoTransfer is alive
  sent,               \* observer: every message handed to sendMessage by a caller, oldest first
  posted,             \* observer: every message posted to the sandbox, oldest first, with isMediaPipeReady at the time
  delivered,          \* observer: the sandbox messages the listener has handled, oldest first
  reported,           \* observer: number of config.onError calls so far
  isActive,           \* content script: isActive
  cameraPc,           \* content script: where the startCamera() call stands
  stoppedMidRun,      \* observer: a STOP_TRACKING was handled while startCamera awaited runCalibration
  calls,              \* content script: the startCamera() calls so far, each with its position
  stream,             \* content script: stream, 0 (null) or the call whose getUserMedia result it holds
  liveStreams,        \* observer: the streams whose tracks have not been stopped
  tracker,            \* content script: tracker, 0 (null) or the call that constructed it
  liveTrackers,       \* observer: the trackers constructed and not disposed
  startRuns,          \* observer: the calls awaiting runCalibration()
  state,              \* background script: state.isActive and state.currentTabId (0: undefined)
  requests,           \* background script: the START_TRACKING / STOP_TRACKING handlers so far, each with its position
  activeTab,          \* environment: id of the active tab of the current window, 0 when there is none
  closedTabs,         \* environment: the tabs that have been removed
  lastStop            \* observer: the tab the latest delivered STOP_TRACKING went to, and state.currentTabId at that time

trackerVars == <<variant, hasCallback, bridgeReady, isRunning, frameCounter,
                 calibrationMatrix, isCalibrated, gazeHistory, eyeHeightHistory,
                 stableEyeHeight, viewport, emitted, lastEmit, lastOp, calibrations, sameRun, arrivals>>

headVars == <<currentHeadPose, initialHeadPose, headCheckInterval, headIndicator>>

systemVars == <<calPc, countdown, targetPoints, currentIndex, errors, validation, captureLog,
                runs, resolutions, headVars>>

cursorVars == <<smoothedX, smoothedY, displayX, displayY, isFirstGaze, frameSkip, gazeUpdates>>

scriptVars == <<currentGaze, samples, calibrationData, gazeStream, ticks, capturePc, validSamples,
                cursorVars>>

bridgeVars == <<iframe, isMediaPipeReady, messageQueue, readyPromise, initPromise, startPc,
                transferring, sent, posted, delivered, reported>>

startupVars == <<calls, stream, liveStreams, tracker, liveTrackers, startRuns>>

backgroundVars == <<state, requests, activeTab, closedTabs, lastStop>>

sessionVars == <<isActive, cameraPc, stoppedMidRun, startupVars, backgroundVars>>

vars == <<trackerVars, systemVars, scriptVars, bridgeVars, sessionVars>>

SMOOTHING_WINDOW_X == 8

SMOOTHING_WINDOW_Y == 4

EYE_HEIGHT_WINDOW == 15

MIN_LANDMARKS == 478

MaxFrames == 3

MaxCalibrations == 1

MaxSmoothFrames == 10

MaxFits == 2

MaxHistoryFrames == 17

MaxRefits == 2

\* handleGazeUpdate calls of a cursor run
MaxGazeUpdates == 6

\* START_TRACKING messages of a start-up run
MaxStarts == 2

\* tabs of a background run
NumTabs == 2

\* START_TRACKING / STOP_TRACKING messages of a background run
MaxRequests == 3

MaxSent == 4

MaxDeliveries == 3

FreePrefix == 3

BlinkThreshold == Q(15, 100)

Confidence == Q(8, 10)

DefaultStableEyeHeight == Q(3, 100)

IdentityLinear == [scaleX |-> I(1), scaleY |-> I(1), offsetX |-> I(0), offsetY |-> I(0)]

IdentityAffine == [a |-> I(1), b |-> I(0), c |-> I(0), d |-> I(1), tx |-> I(0), ty |-> I(0)]

\* ------------------------------------------------------------------------
\* handleGazeData: validation, eye geometry, blink gate
\* ------------------------------------------------------------------------

\* ValidFrame with the iris test weakened to "both missing".
ValidFrameEitherIris(data) ==
  /\ data.hasLandmarks
  /\ ~(data.length < MIN_LANDMARKS)
  /\ (data.hasLeftIris \/ data.hasRightIris)

\* if (!landmarks || landmarks.length < 478) return; if (!leftIris || !rightIris) return;
ValidFrame(data) ==
  /\ data.hasLandmarks
  /\ ~(data.length < MIN_LANDMARKS)
  /\ data.hasLeftIris
  /\ data.hasRightIris

\* Eye widths from the corner landmarks 33/133 and 362/263, eye heights
\* from the eyelid landmarks 159/145 and 386/374.
EyeDims(landmarks) ==
  [leftEyeWidth   |-> MathAbs(Sub(landmarks[133].x, landmarks[33].x)),
   rightEyeWidth  |-> MathAbs(Sub(landmarks[263].x, landmarks[362].x)),
   leftEyeHeight  |-> MathAbs(Sub(landmarks[145].y, landmarks[159].y)),
   rightEyeHeight |-> MathAbs(Sub(landmarks[374].y, landmarks[386].y))]

EyeCenters(landmarks) ==
  [leftEyeCenterX  |-> Half(Add(landmarks[33].x, landmarks[133].x)),
   rightEyeCenterX |-> Half(Add(landmarks[362].x, landmarks[263].x)),
   leftEyeCenterY  |-> Half(Add(landmarks[159].y, landmarks[145].y)),
   rightEyeCenterY |-> Half(Add(landmarks[386].y, landmarks[374].y))]

\* currentEyeHeight = (leftEyeHeight + rightEyeHeight) / 2
CurrentEyeHeight(dims) == Half(Add(dims.leftEyeHeight, dims.rightEyeHeight))

\* avgEyeWidth = (leftEyeWidth + rightEyeWidth) / 2
AvgEyeWidth(dims) == Half(Add(dims.leftEyeWidth, dims.rightEyeWidth))

\* aspectRatio = currentEyeHeight / avgEyeWidth
AspectRatio(dims) == Div(CurrentEyeHeight(dims), AvgEyeWidth(dims))

\* IsBlinking with the threshold at 0.10.
IsBlinkingBelowTenth(aspectRatio) == Lt(aspectRatio, Q(10, 100))

\* const isBlinking = aspectRatio < 0.15
IsBlinking(aspectRatio) == Lt(aspectRatio, BlinkThreshold)

\* ------------------------------------------------------------------------
\* handleGazeData: raw normalized gaze vector
\* ------------------------------------------------------------------------

\* Per-eye iris offsets from the eye centres, in half-dimensions.
IrisOffsets(data, dims, centers) ==
  [leftX  |-> Div(Sub(data.leftIris.x, centers.leftEyeCenterX), Half(dims.leftEyeWidth)),
   rightX |-> Div(Sub(data.rightIris.x, centers.rightEyeCenterX), Half(dims.rightEyeWidth)),
   leftY  |-> Div(Sub(data.leftIris.y, centers.leftEyeCenterY), Half(dims.leftEyeHeight)),
   rightY |-> Div(Sub(data.rightIris.y, centers.rightEyeCenterY), Half(dims.rightEyeHeight))]

\* Linear variant: plain average of both eyes, no mirroring, no clamp.
AverageOffsets(o) ==
  [x |-> Half(Add(o.leftX, o.rightX)), y |-> Half(Add(o.leftY, o.rightY))]

NormalizedLinear(data, dims) ==
  AverageOffsets(IrisOffsets(data, dims, EyeCenters(data.landmarks)))

\* headYaw = faceWidth > 0.01 ? (noseOffsetFromCenter / faceWidth) * 2 : 0
HeadYaw(noseOffsetFromCenter, faceWidth) ==
  IF Gt(faceWidth, Q(1, 100))
  THEN Mul(Div(noseOffsetFromCenter, faceWidth), I(2))
  ELSE I(0)

\* headPitch = ((noseTip.y - forehead.y) / faceHeight - 0.5) * 2
HeadPitch(noseDrop, faceHeight) ==
  Mul(Sub(Div(noseDrop, faceHeight), Q(1, 2)), I(2))

\* Nose tip 4, forehead 10, chin 152, cheeks 234 and 454.
HeadPose(landmarks) ==
  [yaw   |-> HeadYaw(Sub(landmarks[4].x, Half(Add(landmarks[234].x, landmarks[454].x))),
                     MathAbs(Sub(landmarks[454].x, landmarks[234].x))),
   pitch |-> HeadPitch(Sub(landmarks[4].y, landmarks[10].y),
                       MathAbs(Sub(landmarks[152].y, landmarks[10].y))),
   x     |-> landmarks[4].x,
   y     |-> landmarks[4].y]

\* (l * leftWeight + r * rightWeight) / totalWeight
WeightedAverage(l, r, leftWeight, rightWeight) ==
  Div(Add(Mul(l, leftWeight), Mul(r, rightWeight)), Add(leftWeight, rightWeight))

\* dx = clamp(headYaw * yawGain, -0.3, 0.3)
PoseTerm(angle, gain) == Clamp(Q(-3, 10), Q(3, 10), Mul(angle, gain))

\* -(irisOffset + d), clamped to +-0.95
MirrorAndClamp(irisOffset, d) ==
  Clamp(Q(-95, 100), Q(95, 100), Neg(Add(irisOffset, d)))

YawGain == Q(3, 10)

PitchGain == Q(2, 10)

CombineAffine(o, leftWeight, rightWeight, pose) ==
  [x |-> MirrorAndClamp(WeightedAverage(o.leftX, o.rightX, leftWeight, rightWeight),
                        PoseTerm(pose.yaw, YawGain)),
   y |-> MirrorAndClamp(WeightedAverage(o.leftY, o.rightY, leftWeight, rightWeight),
                        PoseTerm(pose.pitch, PitchGain))]

\* Affine variant: size-weighted average of both eyes, damped head-pose
\* term, mirrored, clamped.
NormalizedAffine(data, dims) ==
  CombineAffine(IrisOffsets(data, dims, EyeCenters(data.landmarks)),
                Mul(dims.leftEyeWidth, dims.leftEyeHeight),
                Mul(dims.rightEyeWidth, dims.rightEyeHeight),
                HeadPose(data.landmarks))

Normalized(v, data, dims) ==
  IF v = "affine" THEN NormalizedAffine(data, dims) ELSE NormalizedLinear(data, dims)

\* ------------------------------------------------------------------------
\* handleGazeData: transform, clamp, smoothing
\* ------------------------------------------------------------------------

\* (calibrated + 1) * 0.5 * size
UnitToScreen(calibrated, size) == Mul(Mul(Add(calibrated, I(1)), Q(1, 2)), size)

\* Linear variant: calibrate in normalized space, then map [-1,1] to the screen.
ScreenLinear(n, m, sw, sh) ==
  [x |-> UnitToScreen(Add(Mul(n.x, m.scaleX), m.offsetX), sw),
   y |-> UnitToScreen(Add(Mul(n.y, m.scaleY), m.offsetY), sh)]

IrisRangeUncalibrated == Q(4, 10)

\* size / 2 + (normalized / irisRange) * (size / 2)
Provisional(normalized, size) ==
  Add(Half(size), Mul(Div(normalized, IrisRangeUncalibrated), Half(size)))

\* Affine variant: provisional mapping before calibration, the matrix after.
ScreenAffine(n, calibrated, m, sw, sh) ==
  IF ~calibrated
  THEN [x |-> Provisional(n.x, sw), y |-> Provisional(n.y, sh)]
  ELSE [x |-> Add(Add(Mul(m.a, n.x), Mul(m.b, n.y)), m.tx),
        y |-> Add(Add(Mul(m.c, n.x), Mul(m.d, n.y)), m.ty)]

ToScreen(v, n, calibrated, m, sw, sh) ==
  IF v = "affine" THEN ScreenAffine(n, calibrated, m, sw, sh) ELSE ScreenLinear(n, m, sw, sh)

\* Math.max(0, Math.min(sw, .)) on both axes.
ClampToScreen(p, sw, sh) ==
  [x |-> Clamp(I(0), sw, p.x), y |-> Clamp(I(0), sh, p.y)]

MaxWindow == IF SMOOTHING_WINDOW_X > SMOOTHING_WINDOW_Y THEN SMOOTHING_WINDOW_X ELSE SMOOTHING_WINDOW_Y

Xs(points) == [i \in 1..Len(points) |-> points[i].x]

Ys(points) == [i \in 1..Len(points) |-> points[i].y]

\* Smoothed with the X window used on both axes.
SmoothedOneWindow(hist) ==
  [x |-> Mean(Xs(SliceLast(hist, SMOOTHING_WINDOW_X))),
   y |-> Mean(Ys(SliceLast(hist, SMOOTHING_WINDOW_X)))]

\* Mean of the latest 8 x values and of the latest 4 y values.
Smoothed(hist) ==
  [x |-> Mean(Xs(SliceLast(hist, SMOOTHING_WINDOW_X))),
   y |-> Mean(Ys(SliceLast(hist, SMOOTHING_WINDOW_Y)))]

\* ------------------------------------------------------------------------
\* handleGazeData: the handler
\* ------------------------------------------------------------------------

NoEmit == [valid |-> FALSE, x |-> I(0), y |-> I(0), normalizedX |-> I(0),
           normalizedY |-> I(0), confidence |-> I(0), sw |-> 0, sh |-> 0]

NoRun == [n |-> 0, p |-> Pt(I(0), I(0))]

\* op: the call; frame / points: its input; running: isRunning when it was made.
Op(name, data, points, running) ==
  [op |-> name, frame |-> data, points |-> points, running |-> running]

\* A frame the handler drops: nothing but frameCounter changes.
DropFrame ==
  /\ sameRun' = NoRun
  /\ UNCHANGED <<calibrationMatrix, isCalibrated, gazeHistory, eyeHeightHistory,
                 stableEyeHeight, emitted, lastEmit, arrivals>>

\* onGazeUpdate with normalizedX / normalizedY taken from the smoothed screen
\* point (relative to the viewport) instead of the raw vector.
PublishScreenRelative(n, smoothed) ==
  IF hasCallback
  THEN /\ emitted' = emitted + 1
       /\ lastEmit' = [valid |-> TRUE, x |-> smoothed.x, y |-> smoothed.y,
                       normalizedX |-> Div(smoothed.x, I(viewport[1])),
                       normalizedY |-> Div(smoothed.y, I(viewport[2])),
                       confidence |-> Confidence,
                       sw |-> viewport[1], sh |-> viewport[2]]
  ELSE UNCHANGED <<emitted, lastEmit>>

\* config.onGazeUpdate({x: smoothedX, y: smoothedY, ..., normalizedX, normalizedY})
Publish(n, smoothed) ==
  IF hasCallback
  THEN /\ emitted' = emitted + 1
       /\ lastEmit' = [valid |-> TRUE, x |-> smoothed.x, y |-> smoothed.y,
                       normalizedX |-> n.x, normalizedY |-> n.y,
                       confidence |-> Confidence,
                       sw |-> viewport[1], sh |-> viewport[2]]
  ELSE UNCHANGED <<emitted, lastEmit>>

\* Both histories advance, then the smoothed point is published.
PushAndEmit(n, gaze, currentEyeHeight) ==
  /\ eyeHeightHistory' = PushWindow(eyeHeightHistory, currentEyeHeight, EYE_HEIGHT_WINDOW)
  /\ stableEyeHeight' = Mean(eyeHeightHistory')
  /\ gazeHistory' = PushWindow(gazeHistory, gaze, MaxWindow)
  /\ sameRun' = [n |-> IF sameRun.n > 0 /\ sameRun.p = gaze THEN sameRun.n + 1 ELSE 1,
                 p |-> gaze]
  /\ Publish(n, Smoothed(gazeHistory'))
  /\ arrivals' = Append(arrivals, [gaze |-> gaze, eyeHeight |-> currentEyeHeight,
                                   frame |-> lastOp'.frame,
                                   emitted |-> lastEmit'.valid,
                                   normalizedX |-> lastEmit'.normalizedX,
                                   normalizedY |-> lastEmit'.normalizedY])
  /\ UNCHANGED <<calibrationMatrix, isCalibrated>>

Estimate(dims, n) ==
  PushAndEmit(n,
              ClampToScreen(ToScreen(variant, n, isCalibrated, calibrationMatrix,
                                     I(viewport[1]), I(viewport[2])),
                            I(viewport[1]), I(viewport[2])),
              CurrentEyeHeight(dims))

BlinkGate(data, dims) ==
  IF IsBlinking(AspectRatio(dims))
  THEN DropFrame
  ELSE Estimate(dims, Normalized(variant, data, dims))

\* handleGazeData without the isRunning test.
HandleGazeDataWhileStopped(data) ==
  /\ bridgeReady
  /\ frameCounter' = frameCounter + 1
  /\ lastOp' = Op("frame", data, <<>>, isRunning)
  /\ IF ~ValidFrame(data)
     THEN DropFrame
     ELSE BlinkGate(data, EyeDims(data.landmarks))
  /\ UNCHANGED <<variant, hasCallback, bridgeReady, isRunning, viewport, calibrations>>

\* The sandbox bridge delivers one landmark frame.
HandleGazeData(data) ==
  /\ bridgeReady
  /\ frameCounter' = frameCounter + 1
  /\ lastOp' = Op("frame", data, <<>>, isRunning)
  /\ IF ~isRunning \/ ~ValidFrame(data)
     THEN DropFrame
     ELSE BlinkGate(data, EyeDims(data.landmarks))
  /\ UNCHANGED <<variant, hasCallback, bridgeReady, isRunning, viewport, calibrations>>

\* initialize(): creates the sandbox bridge.
Initialize ==
  /\ ~bridgeReady
  /\ bridgeReady' = TRUE
  /\ UNCHANGED <<variant, hasCallback, isRunning, frameCounter, calibrationMatrix,
                 isCalibrated, gazeHistory, eyeHeightHistory, stableEyeHeight,
                 viewport, emitted, lastEmit, lastOp, calibrations, sameRun, arrivals>>
  /\ UNCHANGED <<systemVars, scriptVars, bridgeVars, sessionVars>>

\* start(): throws unless initialized; sets isRunning.
Start ==
  /\ bridgeReady
  /\ ~isRunning
  /\ isRunning' = TRUE
  /\ UNCHANGED <<variant, hasCallback, bridgeReady, frameCounter, calibrationMatrix,
                 isCalibrated, gazeHistory, eyeHeightHistory, stableEyeHeight,
                 viewport, emitted, lastEmit, lastOp, calibrations, sameRun, arrivals>>
  /\ UNCHANGED <<systemVars, scriptVars, bridgeVars, sessionVars>>

\* stop(): clears isRunning.
Stop ==
  /\ isRunning
  /\ isRunning' = FALSE
  /\ UNCHANGED <<variant, hasCallback, bridgeReady, frameCounter, calibrationMatrix,
                 isCalibrated, gazeHistory, eyeHeightHistory, stableEyeHeight,
                 viewport, emitted, lastEmit, lastOp, calibrations, sameRun, arrivals>>
  /\ UNCHANGED <<systemVars, scriptVars, bridgeVars, sessionVars>>

\* The user resizes the window: window.innerWidth / innerHeight change.
ResizeViewport(vp) ==
  /\ vp # viewport
  /\ viewport' = vp
  /\ UNCHANGED <<variant, hasCallback, bridgeReady, isRunning, frameCounter,
                 calibrationMatrix, isCalibrated, gazeHistory, eyeHeightHistory,
                 stableEyeHeight, emitted, lastEmit, lastOp, calibrations, sameRun, arrivals>>
  /\ UNCHANGED <<systemVars, scriptVars, bridgeVars, sessionVars>>

\* ------------------------------------------------------------------------
\* applyCalibration
\* ------------------------------------------------------------------------

\* One calibration sample {actual, measured: {x, y, normalizedX?, normalizedY?}, stdDev?}.
Sample(ax, ay, mx, my, hasN, nx, ny, hasStd, std) ==
  [actual   |-> Pt(ax, ay),
   measured |-> [x |-> mx, y |-> my, hasNormalizedX |-> hasN, hasNormalizedY |-> hasN,
                 normalizedX |-> nx, normalizedY |-> ny],
   hasStdDev |-> hasStd,
   stdDev   |-> std]

MAX_STDDEV == 50

MIN_GOOD_POINTS == 4

\* const isGood = !p.stdDev || p.stdDev < MAX_STDDEV
IsGood(p) ==
  \/ ~p.hasStdDev
  \/ p.stdDev = I(0)
  \/ IsNaN(p.stdDev)
  \/ Lt(p.stdDev, I(MAX_STDDEV))

\* points.filter(isGood)
RECURSIVE GoodPoints(_)
GoodPoints(points) ==
  IF Len(points) = 0 THEN <<>>
  ELSE IF IsGood(Head(points)) THEN <<Head(points)>> \o GoodPoints(Tail(points))
  ELSE GoodPoints(Tail(points))

\* srcX/srcY: the normalized iris position, 0 when the sample carries none;
\* dstX/dstY: the target in screen pixels.
FitDatum(p) ==
  [srcX |-> IF p.measured.hasNormalizedX THEN p.measured.normalizedX ELSE I(0),
   srcY |-> IF p.measured.hasNormalizedY THEN p.measured.normalizedY ELSE I(0),
   dstX |-> p.actual.x,
   dstY |-> p.actual.y]

FitData(goodPoints) == [i \in 1..Len(goodPoints) |-> FitDatum(goodPoints[i])]

\* The running sums of the normal equations.
FitSums(data) ==
  [n        |-> I(Len(data)),
   sumX     |-> SumSeq([i \in 1..Len(data) |-> data[i].srcX]),
   sumY     |-> SumSeq([i \in 1..Len(data) |-> data[i].srcY]),
   sumXX    |-> SumSeq([i \in 1..Len(data) |-> Mul(data[i].srcX, data[i].srcX)]),
   sumYY    |-> SumSeq([i \in 1..Len(data) |-> Mul(data[i].srcY, data[i].srcY)]),
   sumXY    |-> SumSeq([i \in 1..Len(data) |-> Mul(data[i].srcX, data[i].srcY)]),
   sumDstX  |-> SumSeq([i \in 1..Len(data) |-> data[i].dstX]),
   sumDstY  |-> SumSeq([i \in 1..Len(data) |-> data[i].dstY]),
   sumXDstX |-> SumSeq([i \in 1..Len(data) |-> Mul(data[i].srcX, data[i].dstX)]),
   sumYDstX |-> SumSeq([i \in 1..Len(data) |-> Mul(data[i].srcY, data[i].dstX)]),
   sumXDstY |-> SumSeq([i \in 1..Len(data) |-> Mul(data[i].srcX, data[i].dstY)]),
   sumYDstY |-> SumSeq([i \in 1..Len(data) |-> Mul(data[i].srcY, data[i].dstY)])]

\* p * q - r * t
Minor(p, q, r, t) == Sub(Mul(p, q), Mul(r, t))

\* m11 * (m22*m33 - m23*m32) - m12 * (m21*m33 - m23*m31) + m13 * (m21*m32 - m22*m31)
Det3(m11, m12, m13, m21, m22, m23, m31, m32, m33) ==
  Add(Sub(Mul(m11, Minor(m22, m33, m23, m32)),
          Mul(m12, Minor(m21, m33, m23, m31))),
      Mul(m13, Minor(m21, m32, m22, m31)))

\* detA: the determinant of the normal-equations matrix
\*   [sumXX sumXY sumX; sumXY sumYY sumY; sumX sumY n]
DetA(S) ==
  Det3(S.sumXX, S.sumXY, S.sumX, S.sumXY, S.sumYY, S.sumY, S.sumX, S.sumY, S.n)

\* Cramer numerators for the right-hand side (r1, r2, r3): the matrix with
\* its first, second, third column replaced.
DetCol1(S, r1, r2, r3) ==
  Det3(r1, S.sumXY, S.sumX, r2, S.sumYY, S.sumY, r3, S.sumY, S.n)

\* DetCol2 with the right-hand side put in the first column.
DetCol2FirstColumn(S, r1, r2, r3) ==
  Det3(r1, S.sumXY, S.sumX, r2, S.sumYY, S.sumY, r3, S.sumY, S.n)

DetCol2(S, r1, r2, r3) ==
  Det3(S.sumXX, r1, S.sumX, S.sumXY, r2, S.sumY, S.sumX, r3, S.n)

DetCol3(S, r1, r2, r3) ==
  Det3(S.sumXX, S.sumXY, r1, S.sumXY, S.sumYY, r2, S.sumX, S.sumY, r3)

\* CramerSolve with ty taken from the X right-hand side.
CramerSolveCopiedRow(S, detA) ==
  [a  |-> Div(DetCol1(S, S.sumXDstX, S.sumYDstX, S.sumDstX), detA),
   b  |-> Div(DetCol2(S, S.sumXDstX, S.sumYDstX, S.sumDstX), detA),
   c  |-> Div(DetCol1(S, S.sumXDstY, S.sumYDstY, S.sumDstY), detA),
   d  |-> Div(DetCol2(S, S.sumXDstY, S.sumYDstY, S.sumDstY), detA),
   tx |-> Div(DetCol3(S, S.sumXDstX, S.sumYDstX, S.sumDstX), detA),
   ty |-> Div(DetCol3(S, S.sumXDstX, S.sumYDstX, S.sumDstX), detA)]

\* a = detAa / detA, ... ty = detAty / detA
CramerSolve(S, detA) ==
  [a  |-> Div(DetCol1(S, S.sumXDstX, S.sumYDstX, S.sumDstX), detA),
   b  |-> Div(DetCol2(S, S.sumXDstX, S.sumYDstX, S.sumDstX), detA),
   c  |-> Div(DetCol1(S, S.sumXDstY, S.sumYDstY, S.sumDstY), detA),
   d  |-> Div(DetCol2(S, S.sumXDstY, S.sumYDstY, S.sumDstY), detA),
   tx |-> Div(DetCol3(S, S.sumXDstX, S.sumYDstX, S.sumDstX), detA),
   ty |-> Div(DetCol3(S, S.sumXDstY, S.sumYDstY, S.sumDstY), detA)]

\* IsSingular with the determinant check removed.
IsSingularNever(detA) == FALSE

\* Math.abs(detA) < 1e-10, computed without leaving 32-bit integers:
\* |n|/d < 1/(10^5 * 10^5)  iff  |n| * 10^5 <= (d - 1) div 10^5.
IsSingular(detA) ==
  /\ ~IsNaN(detA)
  /\ IsFinite(detA)
  /\ IAbs(detA[1]) < 20000
  /\ IAbs(detA[1]) * 100000 <= (detA[2] - 1) \div 100000

IrisRangeDefault == Q(6, 10)

\* useDefaultCalibration with the offsets at the far corner instead of the centre.
DefaultMatrixOffCentre(sw, sh) ==
  [a  |-> Div(sw, IrisRangeDefault),
   b  |-> I(0),
   c  |-> I(0),
   d  |-> Div(sh, IrisRangeDefault),
   tx |-> sw,
   ty |-> sh]

\* useDefaultCalibration(): scale sw/0.6, sh/0.6 about the screen centre.
DefaultMatrix(sw, sh) ==
  [a  |-> Div(sw, IrisRangeDefault),
   b  |-> I(0),
   c  |-> I(0),
   d  |-> Div(sh, IrisRangeDefault),
   tx |-> Half(sw),
   ty |-> Half(sh)]

\* expectedScale = sw / 0.6
ExpectedScale(sw) == Div(sw, IrisRangeDefault)

\* MAX_SCALE = expectedScale * 3
MaxScale(expectedScale) == Mul(expectedScale, I(3))

\* MIN_SCALE = expectedScale / 5
MinScale(expectedScale) == Div(expectedScale, I(5))

\* scale > MAX_SCALE || scale < MIN_SCALE, for a scale given by its square
\* (scaleX = Math.sqrt(a*a + c*c) is compared through scaleX^2; the bounds
\* are non-negative).  NaN compares false on both sides.
OutOfRangeSq(scaleSq, minScale, maxScale) ==
  \/ Gt(scaleSq, Mul(maxScale, maxScale))
  \/ Lt(scaleSq, Mul(minScale, minScale))

\* ScaleRejected with the Y scale left unchecked.
ScaleRejectedXOnly(fit, minScale, maxScale) ==
  OutOfRangeSq(Add(Mul(fit.a, fit.a), Mul(fit.c, fit.c)), minScale, maxScale)

\* The sanity check on the fitted scales: TRUE when the fit is rejected.
ScaleRejected(fit, minScale, maxScale) ==
  \/ OutOfRangeSq(Add(Mul(fit.a, fit.a), Mul(fit.c, fit.c)), minScale, maxScale)
  \/ OutOfRangeSq(Mul(fit.d, fit.d), minScale, maxScale)

\* After the sanity check: the fit, or the default matrix.
GateFit(fit, sw, sh) ==
  IF ScaleRejected(fit, MinScale(ExpectedScale(sw)), MaxScale(ExpectedScale(sw)))
  THEN DefaultMatrix(sw, sh)
  ELSE fit

\* After the determinant check: the gated Cramer solution, or the default.
SolveOrDefault(S, detA, sw, sh) ==
  IF IsSingular(detA) THEN DefaultMatrix(sw, sh) ELSE GateFit(CramerSolve(S, detA), sw, sh)

\* The fit from the running sums.
FitFromSums(S, sw, sh) == SolveOrDefault(S, DetA(S), sw, sh)

\* AffineCalibration with the minimum at three good points.
AffineCalibrationMinThree(goodPoints, sw, sh) ==
  IF Len(goodPoints) < MIN_GOOD_POINTS - 1
  THEN DefaultMatrix(sw, sh)
  ELSE FitFromSums(FitSums(FitData(goodPoints)), sw, sh)

\* Affine variant, non-empty input: the matrix in force after the call.
AffineCalibration(goodPoints, sw, sh) ==
  IF Len(goodPoints) < MIN_GOOD_POINTS
  THEN DefaultMatrix(sw, sh)
  ELSE FitFromSums(FitSums(FitData(goodPoints)), sw, sh)

\* Linear variant: (v / size) * 2 - 1, pixels to [-1, 1]
ToUnit(v, size) == Sub(Mul(Div(v, size), I(2)), I(1))

\* Linear variant: the unit-normalized target and measurement of one sample.
NormalizedPoint(p, sw, sh) ==
  [actual   |-> Pt(ToUnit(p.actual.x, sw), ToUnit(p.actual.y, sh)),
   measured |-> Pt(IF p.measured.hasNormalizedX THEN p.measured.normalizedX
                   ELSE ToUnit(p.measured.x, sw),
                   IF p.measured.hasNormalizedY THEN p.measured.normalizedY
                   ELSE ToUnit(p.measured.y, sh))]

\* points.map(p => ...)
RECURSIVE NormalizedPoints(_, _, _)
NormalizedPoints(points, sw, sh) ==
  IF Len(points) = 0 THEN <<>>
  ELSE <<NormalizedPoint(Head(points), sw, sh)>> \o NormalizedPoints(Tail(points), sw, sh)

\* numerator = sum (m - meanM) * (a - meanA); denominator = sum (m - meanM)^2
Covariance(act, meas, meanA, meanM) ==
  SumSeq([i \in 1..Len(act) |-> Mul(Sub(meas[i], meanM), Sub(act[i], meanA))])

\* scale = denominator !== 0 ? numerator / denominator : 1.0
ScaleOf(numerator, denominator) ==
  IF ~StrictEq(denominator, I(0)) THEN Div(numerator, denominator) ELSE I(1)

\* The offset as the difference of the means.
OffsetOfMeans(scale, meanA, meanM) == Sub(meanA, meanM)

\* offset = mean(actual) - scale * mean(measured)
OffsetOf(scale, meanA, meanM) == Sub(meanA, Mul(scale, meanM))

AxisFitFrom(scale, meanA, meanM) ==
  [scale |-> scale, offset |-> OffsetOf(scale, meanA, meanM)]

AxisFitMeans(act, meas, meanA, meanM) ==
  AxisFitFrom(ScaleOf(Covariance(act, meas, meanA, meanM),
                      Covariance(meas, meas, meanM, meanM)),
              meanA, meanM)

\* One axis of the least-squares regression actual = scale * measured + offset.
AxisFit(act, meas) == AxisFitMeans(act, meas, Mean(act), Mean(meas))

LinearMatrix(fx, fy) ==
  [scaleX |-> fx.scale, scaleY |-> fy.scale, offsetX |-> fx.offset, offsetY |-> fy.offset]

LinearFit(np) ==
  LinearMatrix(AxisFit([i \in 1..Len(np) |-> np[i].actual.x], [i \in 1..Len(np) |-> np[i].measured.x]),
               AxisFit([i \in 1..Len(np) |-> np[i].actual.y], [i \in 1..Len(np) |-> np[i].measured.y]))

\* Linear variant, non-empty input: the matrix in force after the call.
LinearCalibration(points, sw, sh) == LinearFit(NormalizedPoints(points, sw, sh))

\* EmptyInput with the early return removed.
EmptyInputNever(points) == FALSE

\* if (points.length === 0) return;
EmptyInput(points) == Len(points) = 0

\* applyCalibration(points) that also starts both histories afresh.
ApplyCalibrationResets(points) ==
  /\ calibrations' = calibrations + 1
  /\ lastOp' = Op("calibrate", FNoLandmarks, points, isRunning)
  /\ IF EmptyInput(points)
     THEN UNCHANGED <<calibrationMatrix, isCalibrated>>
     ELSE IF variant = "affine"
          THEN /\ calibrationMatrix' = AffineCalibration(GoodPoints(points), I(viewport[1]), I(viewport[2]))
               /\ isCalibrated' = TRUE
          ELSE /\ calibrationMatrix' = LinearCalibration(points, I(viewport[1]), I(viewport[2]))
               /\ UNCHANGED isCalibrated
  /\ gazeHistory' = <<>>
  /\ eyeHeightHistory' = <<>>
  /\ UNCHANGED <<variant, hasCallback, bridgeReady, isRunning, frameCounter,
                 stableEyeHeight, viewport, emitted, lastEmit, sameRun, arrivals>>

\* applyCalibration(points)
ApplyCalibration(points) ==
  /\ calibrations' = calibrations + 1
  /\ lastOp' = Op("calibrate", FNoLandmarks, points, isRunning)
  /\ IF EmptyInput(points)
     THEN UNCHANGED <<calibrationMatrix, isCalibrated>>
     ELSE IF variant = "affine"
          THEN /\ calibrationMatrix' = AffineCalibration(GoodPoints(points), I(viewport[1]), I(viewport[2]))
               /\ isCalibrated' = TRUE
          ELSE /\ calibrationMatrix' = LinearCalibration(points, I(viewport[1]), I(viewport[2]))
               /\ UNCHANGED isCalibrated
  /\ UNCHANGED <<variant, hasCallback, bridgeReady, isRunning, frameCounter, gazeHistory,
                 eyeHeightHistory, stableEyeHeight, viewport, emitted, lastEmit, sameRun, arrivals>>

\* ------------------------------------------------------------------------
\* CalibrationSystem
\* ------------------------------------------------------------------------

\* GridPositions listed column by column.
GridPositionsByColumn ==
  <<<<Q(15, 100), Q(15, 100)>>, <<Q(15, 100), Q(1, 2)>>,    <<Q(15, 100), Q(85, 100)>>,
    <<Q(1, 2), Q(15, 100)>>,    <<Q(1, 2), Q(1, 2)>>,       <<Q(1, 2), Q(85, 100)>>,
    <<Q(85, 100), Q(15, 100)>>, <<Q(85, 100), Q(1, 2)>>,    <<Q(85, 100), Q(85, 100)>>>>

\* The fractions of the 3x3 grid, row by row: [0.15, 0.15], [0.5, 0.15], ...
GridPositions ==
  <<<<Q(15, 100), Q(15, 100)>>, <<Q(1, 2), Q(15, 100)>>, <<Q(85, 100), Q(15, 100)>>,
    <<Q(15, 100), Q(1, 2)>>,    <<Q(1, 2), Q(1, 2)>>,    <<Q(85, 100), Q(1, 2)>>,
    <<Q(15, 100), Q(85, 100)>>, <<Q(1, 2), Q(85, 100)>>, <<Q(85, 100), Q(85, 100)>>>>

\* positions.forEach(([x, y]) => points.push({x: width * x, y: height * y}))
RECURSIVE PushPositions(_, _, _)
PushPositions(positions, width, height) ==
  IF Len(positions) = 0 THEN <<>>
  ELSE <<Pt(Mul(width, Head(positions)[1]), Mul(height, Head(positions)[2]))>>
         \o PushPositions(Tail(positions), width, height)

\* generateCalibrationGrid() at window.innerWidth x window.innerHeight = vp
GenerateCalibrationGrid(vp) == PushPositions(GridPositions, I(vp[1]), I(vp[2]))

\* runValidation: validationPoints at window.innerWidth x window.innerHeight = vp
ValidationPoints(vp) ==
  <<Pt(Mul(I(vp[1]), Q(3, 10)), Mul(I(vp[2]), Q(3, 10))),
    Pt(Mul(I(vp[1]), Q(7, 10)), Mul(I(vp[2]), Q(3, 10))),
    Pt(Mul(I(vp[1]), Q(1, 2)),  Mul(I(vp[2]), Q(1, 2))),
    Pt(Mul(I(vp[1]), Q(3, 10)), Mul(I(vp[2]), Q(7, 10))),
    Pt(Mul(I(vp[1]), Q(7, 10)), Mul(I(vp[2]), Q(7, 10)))>>

MaxRuns == 2

\* No value: runValidation's promise is still pending.
NoValidation == [resolved |-> FALSE, success |-> FALSE, avgError |-> I(0)]

\* One onGazeCapture call: its argument, whether its promise has resolved,
\* and the point it resolved with.
Capture(target, resolved, result) ==
  [target |-> target, resolved |-> resolved, result |-> result]

\* No run is between its call and the resolution of its promise.  (The
\* closures of two overlapping runs are not modelled.)
NoRunInFlight == calPc \in {"idle", "resolved", "vresolved", "abandoned"}

\* await onGazeCapture(...) returns: the latest call has resolved.
MarkResolved(log, result) ==
  [log EXCEPT ![Len(log)] = Capture(log[Len(log)].target, TRUE, result)]

\* currentHeadPose === null
NoPose == [present |-> FALSE, yaw |-> I(0), pitch |-> I(0)]

HeadPose2(yaw, pitch) == [present |-> TRUE, yaw |-> yaw, pitch |-> pitch]

MAX_HEAD_MOVEMENT == Q(8, 100)

\* Whether the head moved more than MAX_HEAD_MOVEMENT between two poses:
\* Math.sqrt(dyaw^2 + dpitch^2) > 0.08, compared on the squares.
Movement2(a, b) ==
  Add(Mul(Sub(a.yaw, b.yaw), Sub(a.yaw, b.yaw)), Mul(Sub(a.pitch, b.pitch), Sub(a.pitch, b.pitch)))

HeadMoved(a, b) == Gt(Movement2(a, b), Mul(MAX_HEAD_MOVEMENT, MAX_HEAD_MOVEMENT))

\* showNextPoint of the improved system: initialHeadPose is a copy of
\* currentHeadPose (or null) and the 100 ms head check is armed.  The simple
\* system has no head check.
MonitorHead ==
  IF variant = "affine"
  THEN /\ initialHeadPose' = currentHeadPose
       /\ headCheckInterval' = TRUE
       /\ UNCHANGED <<currentHeadPose, headIndicator>>
  ELSE UNCHANGED headVars

\* ShowNextPoint finishing one point early.
ShowNextPointOneEarly(idx, n) ==
  IF idx >= n - 1
  THEN /\ IF variant = "affine"
          THEN calPc' = "completing" /\ UNCHANGED resolutions
          ELSE calPc' = "resolved" /\ resolutions' = resolutions + 1
       /\ UNCHANGED headVars
  ELSE calPc' = "dwell" /\ UNCHANGED resolutions /\ MonitorHead

\* showNextPoint() of the calibration run with currentIndex = idx over n
\* targetPoints.  Past the last point the simple system removes the overlay and
\* resolves; the improved one first shows the completion animation.
ShowNextPoint(idx, n) ==
  IF idx >= n
  THEN /\ IF variant = "affine"
          THEN calPc' = "completing" /\ UNCHANGED resolutions
          ELSE calPc' = "resolved" /\ resolutions' = resolutions + 1
       /\ UNCHANGED headVars
  ELSE calPc' = "dwell" /\ UNCHANGED resolutions /\ MonitorHead

\* runCalibration(onGazeCapture).  The simple system takes the grid and
\* shows the first point at once (the grid is never empty); the improved
\* one starts the preparation countdown.
RunCalibration ==
  /\ NoRunInFlight
  /\ runs < MaxRuns
  /\ runs' = runs + 1
  /\ captureLog' = <<>>
  /\ currentIndex' = 0
  /\ IF variant = "affine"
     THEN /\ calPc' = "preparing"
          /\ countdown' = 3
          /\ targetPoints' = <<>>
     ELSE /\ targetPoints' = GenerateCalibrationGrid(viewport)
          /\ calPc' = "dwell"
          /\ UNCHANGED countdown
  /\ resolutions' = 0
  /\ UNCHANGED <<errors, validation, headVars>>

\* showPreparationScreen: the 1 s interval.  At zero the promise resolves
\* and runMainCalibration takes the grid and arms the 500 ms start timer.
CountdownTick ==
  /\ calPc = "preparing"
  /\ countdown' = countdown - 1
  /\ IF countdown' > 0
     THEN UNCHANGED <<calPc, targetPoints, headIndicator>>
     ELSE /\ targetPoints' = GenerateCalibrationGrid(viewport)
          /\ calPc' = "starting"
          /\ headIndicator' = "ok"
  /\ UNCHANGED <<currentIndex, errors, validation, captureLog, runs, resolutions,
                 currentHeadPose, initialHeadPose, headCheckInterval>>

\* setTimeout(showNextPoint, 500) of runMainCalibration fires.
StartTimeout ==
  /\ calPc = "starting"
  /\ ShowNextPoint(currentIndex, Len(targetPoints))
  /\ UNCHANGED <<countdown, targetPoints, currentIndex, errors, validation, captureLog, runs>>

\* The dwell timer fires: onGazeCapture(targetPoint) is called and awaited.
DwellTimeout ==
  /\ calPc = "dwell"
  /\ captureLog' = Append(captureLog, Capture(targetPoints[currentIndex + 1], FALSE, Pt(I(0), I(0))))
  /\ calPc' = "capturing"
  /\ headCheckInterval' = FALSE
  /\ UNCHANGED <<countdown, targetPoints, currentIndex, errors, validation, runs, resolutions,
                 currentHeadPose, initialHeadPose, headIndicator>>

\* The awaited capture resolves (its value is not used).  The simple system
\* advances and shows the next point; the improved one arms the 200 ms timer.
CaptureResolved(result) ==
  /\ calPc = "capturing"
  /\ captureLog' = MarkResolved(captureLog, result)
  /\ IF variant = "affine"
     THEN /\ calPc' = "success"
          /\ UNCHANGED <<currentIndex, resolutions, headVars>>
     ELSE /\ currentIndex' = currentIndex + 1
          /\ ShowNextPoint(currentIndex', Len(targetPoints))
  /\ UNCHANGED <<countdown, targetPoints, errors, validation, runs>>

\* The awaited capture rejects: the timer callback throws, nothing advances
\* and the run's promise stays pending.
CaptureRejected ==
  /\ calPc \in {"capturing", "vcapturing"}
  /\ calPc' = "abandoned"
  /\ UNCHANGED <<countdown, targetPoints, currentIndex, errors, validation, captureLog, runs,
                 resolutions, headVars>>

\* The 200 ms timer of the improved system: currentIndex++; showNextPoint().
SuccessTimeout ==
  /\ calPc = "success"
  /\ currentIndex' = currentIndex + 1
  /\ ShowNextPoint(currentIndex', Len(targetPoints))
  /\ UNCHANGED <<countdown, targetPoints, errors, validation, captureLog, runs>>

\* showCompletionAnimation's 1 s timer: overlay.remove(); resolve().
CompletionTimeout ==
  /\ calPc = "completing"
  /\ calPc' = "resolved"
  /\ resolutions' = resolutions + 1
  /\ UNCHANGED <<countdown, targetPoints, currentIndex, errors, validation, captureLog, runs, headVars>>

\* updateHeadPose(pose): the tracker's head pose callback stores the pose.
UpdateHeadPose(pose) ==
  /\ currentHeadPose' = pose
  /\ UNCHANGED <<calPc, countdown, targetPoints, currentIndex, errors, validation, captureLog,
                 runs, resolutions, initialHeadPose, headCheckInterval, headIndicator>>

\* One tick of the 100 ms head check of showNextPoint.
HeadCheck ==
  /\ headCheckInterval
  /\ headIndicator' = IF currentHeadPose.present /\ initialHeadPose.present
                      THEN IF HeadMoved(currentHeadPose, initialHeadPose) THEN "warn" ELSE "ok"
                      ELSE headIndicator
  /\ UNCHANGED <<calPc, countdown, targetPoints, currentIndex, errors, validation, captureLog,
                 runs, resolutions, currentHeadPose, initialHeadPose, headCheckInterval>>

\* runValidation(onGazeCapture), improved system only.
RunValidation ==
  /\ variant = "affine"
  /\ NoRunInFlight
  /\ runs < MaxRuns
  /\ runs' = runs + 1
  /\ captureLog' = <<>>
  /\ targetPoints' = ValidationPoints(viewport)
  /\ currentIndex' = 0
  /\ errors' = <<>>
  /\ validation' = NoValidation
  /\ calPc' = "vstarting"
  /\ resolutions' = 0
  /\ UNCHANGED <<countdown, headVars>>

\* showNextPoint() of the validation run with currentIndex = idx: past the
\* last point the result screen is shown and the 2 s timer armed.
ShowNextValidationPoint(idx) ==
  calPc' = (IF idx >= Len(targetPoints) THEN "vresult" ELSE "vdwell")

\* setTimeout(showNextPoint, 500) of runValidation fires.
ValidationStartTimeout ==
  /\ calPc = "vstarting"
  /\ ShowNextValidationPoint(currentIndex)
  /\ UNCHANGED <<countdown, targetPoints, currentIndex, errors, validation, captureLog, runs,
                 resolutions, headVars>>

\* The 1.5 s timer fires: onGazeCapture(point) is called and awaited.
ValidationDwellTimeout ==
  /\ calPc = "vdwell"
  /\ captureLog' = Append(captureLog, Capture(targetPoints[currentIndex + 1], FALSE, Pt(I(0), I(0))))
  /\ calPc' = "vcapturing"
  /\ UNCHANGED <<countdown, targetPoints, currentIndex, errors, validation, runs, resolutions, headVars>>

\* ValidationError as the sum of the absolute differences.
ValidationErrorManhattan(measured, point) ==
  Add(MathAbs(Sub(measured.x, point.x)), MathAbs(Sub(measured.y, point.y)))

\* error = Math.sqrt(Math.pow(measured.x - point.x, 2) + Math.pow(measured.y - point.y, 2))
ValidationError(measured, point) ==
  MathSqrt(Add(Mul(Sub(measured.x, point.x), Sub(measured.x, point.x)),
               Mul(Sub(measured.y, point.y), Sub(measured.y, point.y))))

\* The awaited capture resolves with the measured point: its error is
\* recorded and the 500 ms timer armed.
ValidationCaptureResolved(measured) ==
  /\ calPc = "vcapturing"
  /\ captureLog' = MarkResolved(captureLog, measured)
  /\ errors' = Append(errors, ValidationError(measured, targetPoints[currentIndex + 1]))
  /\ calPc' = "vpause"
  /\ UNCHANGED <<countdown, targetPoints, currentIndex, validation, runs, resolutions, headVars>>

\* The 500 ms timer: currentIndex++; showNextPoint().
ValidationPauseTimeout ==
  /\ calPc = "vpause"
  /\ currentIndex' = currentIndex + 1
  /\ ShowNextValidationPoint(currentIndex')
  /\ UNCHANGED <<countdown, targetPoints, errors, validation, captureLog, runs, resolutions, headVars>>

\* avgError = errors.reduce((a, b) => a + b, 0) / errors.length
AvgError(errs) == Div(SumSeq(errs), I(Len(errs)))

\* The 2 s timer: resolve({success: avgError < 100, avgError}).
ValidationResultTimeout ==
  /\ calPc = "vresult"
  /\ validation' = [resolved |-> TRUE,
                    success  |-> Lt(AvgError(errors), I(100)),
                    avgError |-> AvgError(errors)]
  /\ calPc' = "vresolved"
  /\ resolutions' = resolutions + 1
  /\ UNCHANGED <<countdown, targetPoints, currentIndex, errors, captureLog, runs, headVars>>

\* ------------------------------------------------------------------------
\* Content script
\* ------------------------------------------------------------------------

\* currentGaze = null
NoGaze == [valid |-> FALSE, id |-> 0, x |-> I(0), y |-> I(0),
           normalizedX |-> I(0), normalizedY |-> I(0)]

\* A GazePoint object.  Two polls of one object are the same record; objects
\* of different handleGazeUpdate calls differ in id.
GazePoint(id, px, py, nx, ny) ==
  [valid |-> TRUE, id |-> id, x |-> px, y |-> py, normalizedX |-> nx, normalizedY |-> ny]

\* const sampleCount = 50 of the trimming script, 30 of the plain one
SampleCountTrimming == 50

SampleCountPlain == 30

SampleCount == IF variant = "affine" THEN SampleCountTrimming ELSE SampleCountPlain

\* Math.floor(sampleCount * 0.1)
TrimCount(sampleCount) == sampleCount \div 10

\* trimmedSamples.length >= 10
MinTrimmed == 10

\* The comparator (a, b) => a[axis] - b[axis] is positive.
ComesAfter(a, b, axis) == Lt(I(0), Sub(a[axis], b[axis]))

\* The merge of two arrays in order, left before right on a tie.
RECURSIVE Merge(_, _, _)
Merge(left, right, axis) ==
  IF Len(left) = 0 THEN right
  ELSE IF Len(right) = 0 THEN left
  ELSE IF ComesAfter(Head(left), Head(right), axis)
       THEN <<Head(right)>> \o Merge(left, Tail(right), axis)
       ELSE <<Head(left)>> \o Merge(Tail(left), right, axis)

\* [...arr].sort((a, b) => a[axis] - b[axis]).  Array.prototype.sort is
\* stable; a stable merge sort gives its result.
RECURSIVE SortBy(_, _)
SortBy(arr, axis) ==
  IF Len(arr) <= 1 THEN arr
  ELSE Merge(SortBy(SubSeq(arr, 1, Len(arr) \div 2), axis),
             SortBy(SubSeq(arr, (Len(arr) \div 2) + 1, Len(arr)), axis), axis)

RECURSIVE IndexFrom(_, _, _)
IndexFrom(arr, e, i) ==
  IF i > Len(arr) THEN -1 ELSE IF arr[i] = e THEN i - 1 ELSE IndexFrom(arr, e, i + 1)

\* arr.indexOf(e): the 0-based index of the first element identical to e
IndexOf(arr, e) == IndexFrom(arr, e, 1)

\* xRank >= trimCount && xRank < sampleCount - trimCount
RankKept(rank, trimCount, sampleCount) == rank >= trimCount /\ rank < sampleCount - trimCount

\* samples.filter((_, i) => ...): the test reads samples[i] only.
Trim(arr, sortedX, sortedY, sampleCount) ==
  SelectSeq(arr, LAMBDA g :
    /\ RankKept(IndexOf(sortedX, g), TrimCount(sampleCount), sampleCount)
    /\ RankKept(IndexOf(sortedY, g), TrimCount(sampleCount), sampleCount))

TrimmedSamples(arr, sampleCount) == Trim(arr, SortBy(arr, "x"), SortBy(arr, "y"), sampleCount)

\* The trimmed set whatever its size.
TrimmedAlways(trimmedSamples, arr) == trimmedSamples

\* trimmedSamples.length >= 10 ? trimmedSamples : samples
TrimmedOrAll(trimmedSamples, arr) ==
  IF Len(trimmedSamples) >= MinTrimmed THEN trimmedSamples ELSE arr

\* The set a capture averages: the plain script averages every sample.
ValidSamples(arr, sampleCount) ==
  IF variant = "affine" THEN TrimmedOrAll(TrimmedSamples(arr, sampleCount), arr) ELSE arr

\* g.normalizedX || 0
OrZero(v) == IF IsNaN(v) THEN I(0) ELSE v

\* arr.map(g => g[field])
FieldOf(arr, field) == [i \in 1..Len(arr) |-> arr[i][field]]

\* arr.map(g => g[field] || 0)
FieldOrZero(arr, field) == [i \in 1..Len(arr) |-> OrZero(arr[i][field])]

\* The sum of vals[lo..hi].  reduce adds from the left; the exact sum does
\* not depend on the bracketing.
RECURSIVE SumRange(_, _, _)
SumRange(vals, lo, hi) ==
  IF lo > hi THEN I(0)
  ELSE IF lo = hi THEN vals[lo]
  ELSE Add(SumRange(vals, lo, (lo + hi) \div 2), SumRange(vals, ((lo + hi) \div 2) + 1, hi))

\* vals.reduce((sum, v) => sum + v, 0) / vals.length
Average(vals) == Div(SumRange(vals, 1, Len(vals)), I(Len(vals)))

\* vals.map(v => Math.pow(v - avg, 2))
SquaredDeviations(vals, avg) ==
  [i \in 1..Len(vals) |-> Mul(Sub(vals[i], avg), Sub(vals[i], avg))]

\* validSamples.reduce((sum, g) => sum + Math.pow(g.x - avgX, 2), 0) / validSamples.length
Variance(vals, avg) == Average(SquaredDeviations(vals, avg))

StdDev(xs, ys, avgX, avgY) == MathSqrt(Add(Variance(xs, avgX), Variance(ys, avgY)))

\* The entry pushed to calibrationData for targetPoint.
CalibrationEntry(targetPoint, xs, ys, avgX, avgY, avgNormX, avgNormY) ==
  Sample(targetPoint.x, targetPoint.y, avgX, avgY, TRUE, avgNormX, avgNormY, TRUE,
         StdDev(xs, ys, avgX, avgY))

EntryOf(targetPoint, xs, ys, nxs, nys) ==
  CalibrationEntry(targetPoint, xs, ys, Average(xs), Average(ys), Average(nxs), Average(nys))

\* The entry a capture of targetPoint computes from its averaged set.
Measure(targetPoint, valid) ==
  EntryOf(targetPoint, FieldOf(valid, "x"), FieldOf(valid, "y"),
          FieldOrZero(valid, "normalizedX"), FieldOrZero(valid, "normalizedY"))

\* handleGazeUpdate(gaze), first statement: currentGaze = gaze.  The cursor
\* conditioner that follows it (ConditionCursor) writes only its own variables.
HandleGazeUpdate(gaze) ==
  /\ currentGaze' = gaze
  /\ UNCHANGED <<samples, calibrationData, gazeStream, ticks, capturePc, validSamples>>

SMOOTHING_ALPHA == Q(15, 100)

DEAD_ZONE_Y == 8

DEAD_ZONE_X == 20

\* SMOOTHING_ALPHA * g + (1 - SMOOTHING_ALPHA) * s.
LowPass(g, s) == Add(Mul(SMOOTHING_ALPHA, g), Mul(Sub(I(1), SMOOTHING_ALPHA), s))

\* if (Math.abs(smoothed - display) > zone) display = smoothed.
DeadZone(smoothed, display, zone) ==
  IF Gt(MathAbs(Sub(smoothed, display)), I(zone)) THEN smoothed ELSE display

\* handleGazeUpdate(gaze) after its first statement: every second call is
\* skipped; the first processed gaze initialises both pairs; then the low-pass
\* filter and the two dead-zone tests.
ConditionCursor(gaze) ==
  /\ gazeUpdates' = gazeUpdates + 1
  /\ frameSkip' = (frameSkip + 1) % 2
  /\ IF frameSkip' # 0
     THEN UNCHANGED <<smoothedX, smoothedY, displayX, displayY, isFirstGaze>>
     ELSE /\ smoothedX' = LowPass(gaze.x, IF isFirstGaze THEN gaze.x ELSE smoothedX)
          /\ smoothedY' = LowPass(gaze.y, IF isFirstGaze THEN gaze.y ELSE smoothedY)
          /\ displayX' = DeadZone(smoothedX', IF isFirstGaze THEN gaze.x ELSE displayX, DEAD_ZONE_X)
          /\ displayY' = DeadZone(smoothedY', IF isFirstGaze THEN gaze.y ELSE displayY, DEAD_ZONE_Y)
          /\ isFirstGaze' = FALSE

\* runCalibration() of the content script up to the first timer of
\* calibration.runCalibration(...): calibrationData = [].
ScriptRunCalibration ==
  /\ RunCalibration
  /\ calibrationData' = <<>>
  /\ UNCHANGED <<currentGaze, samples, gazeStream, ticks, capturePc, validSamples, cursorVars>>

\* The dwell timer calls the script's capture routine.  The trimming script
\* first waits 300 ms; the plain one starts its sampling interval at once.
OnGazeCapture ==
  /\ DwellTimeout
  /\ samples' = <<>>
  /\ ticks' = 0
  /\ capturePc' = (IF variant = "affine" THEN "settling" ELSE "polling")
  /\ UNCHANGED <<currentGaze, calibrationData, gazeStream, validSamples, cursorVars>>

\* The 300 ms timer: the sampling interval starts.
SettleTimeout ==
  /\ calPc = "capturing"
  /\ capturePc = "settling"
  /\ capturePc' = "polling"
  /\ UNCHANGED <<currentGaze, samples, calibrationData, gazeStream, ticks, validSamples, cursorVars>>

\* samples.push(currentGaze) without the null test.
PushCurrentUnchecked(arr, gaze) == Append(arr, gaze)

\* if (currentGaze) samples.push(currentGaze)
PushCurrent(arr, gaze) == IF gaze.valid THEN Append(arr, gaze) ELSE arr

\* calibrationData.unshift(entry)
UnshiftEntry(data, entry) == <<entry>> \o data

\* calibrationData.push(entry)
PushEntry(data, entry) == Append(data, entry)

\* The capture completes with the entry computed from its samples: it is pushed to
\* calibrationData and the promise resolves, which lets the system go on
\* (CaptureResolved); when that resolves the run (simple system, last point)
\* the script's await returns and it calls tracker.applyCalibration.
CaptureCompletes(entry) ==
  /\ capturePc' = "none"
  /\ calibrationData' = PushEntry(calibrationData, entry)
  /\ CaptureResolved(Pt(entry.measured.x, entry.measured.y))
  /\ IF calPc' = "resolved"
     THEN ApplyCalibration(calibrationData')
     ELSE UNCHANGED trackerVars

\* One callback of the sampling interval.
PollTick ==
  /\ calPc = "capturing"
  /\ capturePc = "polling"
  /\ ticks' = ticks + 1
  /\ samples' = PushCurrent(samples, currentGaze)
  /\ IF Len(samples') >= SampleCount
     THEN /\ validSamples' = ValidSamples(samples', SampleCount)
          /\ CaptureCompletes(Measure(targetPoints[currentIndex + 1], validSamples'))
     ELSE UNCHANGED <<capturePc, validSamples, calibrationData, systemVars, trackerVars>>
  /\ UNCHANGED <<currentGaze, gazeStream, cursorVars>>

\* The completion timer of the improved system resolves the run; the
\* script's await returns and it calls tracker.applyCalibration.
CompletionApplies ==
  /\ CompletionTimeout
  /\ ApplyCalibration(calibrationData)
  /\ UNCHANGED scriptVars

\* ------------------------------------------------------------------------
\* SandboxBridge
\* ------------------------------------------------------------------------

\* The message types sendMessage posts before MediaPipe is ready.
InitMessages == {"INIT_MEDIAPIPE", "VIDEO_READY", "VIDEO_FRAME"}

\* A message handed to sendMessage; id numbers the calls.
Message(type) == [type |-> type, id |-> Len(sent) + 1]

\* The bridge fields sendMessage reads and writes.
Channel(frame, ready, queue, log) ==
  [iframe |-> frame, ready |-> ready, queue |-> queue, posted |-> log]

\* sendMessage without the isMediaPipeReady test.
SendMessageUnqueued(b, message) ==
  IF ~b.iframe
  THEN [b EXCEPT !.queue = Append(b.queue, message)]
  ELSE [b EXCEPT !.posted = Append(b.posted, [type |-> message.type, id |-> message.id,
                                               ready |-> b.ready])]

\* sendMessage(message): queued when there is no iframe, or when MediaPipe
\* is not ready and the message is not an initialization message; posted
\* otherwise.
SendMessage(b, message) ==
  IF ~b.iframe
  THEN [b EXCEPT !.queue = Append(b.queue, message)]
  ELSE IF ~b.ready /\ message.type \notin InitMessages
       THEN [b EXCEPT !.queue = Append(b.queue, message)]
       ELSE [b EXCEPT !.posted = Append(b.posted, [type |-> message.type, id |-> message.id,
                                                    ready |-> b.ready])]

\* messageQueue.pop(): the newest message instead of the oldest.
DequeuedNewest(queue) ==
  [message |-> queue[Len(queue)], rest |-> SubSeq(queue, 1, Len(queue) - 1)]

\* messageQueue.shift()
Dequeued(queue) == [message |-> Head(queue), rest |-> Shift(queue)]

\* flushMessageQueue(): while (messageQueue.length > 0) sendMessage(shift()).
\* n bounds the iterations; a queue left non-empty after n = length
\* iterations is one the loop never empties.
RECURSIVE FlushMessageQueue(_, _)
FlushMessageQueue(b, n) ==
  IF Len(b.queue) = 0 \/ n = 0 THEN b
  ELSE FlushMessageQueue(SendMessage([b EXCEPT !.queue = Dequeued(b.queue).rest],
                                     Dequeued(b.queue).message),
                         n - 1)

\* A caller's sendMessage(type) on the bridge as it stands.
Send(type) ==
  /\ sent' = Append(sent, Message(type))
  /\ messageQueue' = SendMessage(Channel(iframe, isMediaPipeReady, messageQueue, posted),
                                 Message(type)).queue
  /\ posted' = SendMessage(Channel(iframe, isMediaPipeReady, messageQueue, posted),
                           Message(type)).posted

\* initialize(): the iframe is created and appended, the 60 s timer armed,
\* the continuation attached to readyPromise.
BridgeInitialize ==
  /\ initPromise = "none"
  /\ iframe' = TRUE
  /\ initPromise' = "pending"
  /\ UNCHANGED <<isMediaPipeReady, messageQueue, readyPromise, startPc, transferring, sent,
                 posted, delivered, reported>>

\* readyPromise.then(...): clearTimeout(readyTimeout); resolve().
InitResolves ==
  /\ initPromise = "pending"
  /\ readyPromise = "resolved"
  /\ initPromise' = "resolved"
  /\ UNCHANGED <<iframe, isMediaPipeReady, messageQueue, readyPromise, startPc, transferring,
                 sent, posted, delivered, reported>>

\* readyTimeout resolving the promise of initialize() instead of rejecting it.
ReadyTimeoutResolves ==
  /\ initPromise = "pending"
  /\ readyPromise = "pending"
  /\ initPromise' = "resolved"
  /\ UNCHANGED <<iframe, isMediaPipeReady, messageQueue, readyPromise, startPc, transferring,
                 sent, posted, delivered, reported>>

\* readyTimeout fires after 60 s: reject(new Error('Sandbox initialization timeout ...')).
ReadyTimeout ==
  /\ initPromise = "pending"
  /\ readyPromise = "pending"
  /\ initPromise' = "rejected"
  /\ UNCHANGED <<iframe, isMediaPipeReady, messageQueue, readyPromise, startPc, transferring,
                 sent, posted, delivered, reported>>

\* Listener, case 'SANDBOX_READY': sendMessage({type: 'INIT_MEDIAPIPE'}).
OnSandboxReady ==
  /\ iframe
  /\ delivered' = Append(delivered, "SANDBOX_READY")
  /\ Send("INIT_MEDIAPIPE")
  /\ UNCHANGED <<iframe, isMediaPipeReady, readyPromise, initPromise, startPc, transferring,
                 reported>>

\* Listener, case 'MEDIAPIPE_READY' with success: the flag is set, readyPromise
\* resolved, onReady called and the queue flushed.
OnMediaPipeReady ==
  /\ iframe
  /\ delivered' = Append(delivered, "MEDIAPIPE_READY")
  /\ isMediaPipeReady' = TRUE
  /\ readyPromise' = "resolved"
  /\ messageQueue' = FlushMessageQueue(Channel(iframe, TRUE, messageQueue, posted),
                                       Len(messageQueue)).queue
  /\ posted' = FlushMessageQueue(Channel(iframe, TRUE, messageQueue, posted),
                                 Len(messageQueue)).posted
  /\ UNCHANGED <<iframe, initPromise, startPc, transferring, sent, reported>>

\* Listener, case 'MEDIAPIPE_READY' without success: onError is called.
OnMediaPipeFailed ==
  /\ iframe
  /\ delivered' = Append(delivered, "MEDIAPIPE_FAILED")
  /\ reported' = reported + 1
  /\ UNCHANGED <<iframe, isMediaPipeReady, messageQueue, readyPromise, initPromise, startPc,
                 transferring, sent, posted>>

\* start() is called and awaits waitForReady().
BridgeStart ==
  /\ startPc # "waiting"
  /\ startPc' = "waiting"
  /\ UNCHANGED <<iframe, isMediaPipeReady, messageQueue, readyPromise, initPromise,
                 transferring, sent, posted, delivered, reported>>

\* waitForReady() has resolved: start() throws unless MediaPipe is ready,
\* else sends START_TRACKING.
StartResumes ==
  /\ startPc = "waiting"
  /\ isMediaPipeReady \/ readyPromise = "resolved"
  /\ IF ~isMediaPipeReady
     THEN startPc' = "threw" /\ UNCHANGED <<messageQueue, sent, posted>>
     ELSE startPc' = "done" /\ Send("START_TRACKING")
  /\ UNCHANGED <<iframe, isMediaPipeReady, readyPromise, initPromise, transferring,
                 delivered, reported>>

\* stop(): sendMessage({type: 'STOP_TRACKING'}).
BridgeStop ==
  /\ Send("STOP_TRACKING")
  /\ UNCHANGED <<iframe, isMediaPipeReady, readyPromise, initPromise, startPc, transferring,
                 delivered, reported>>

\* setVideoStream(stream), once the video plays: startVideoTransfer() sends
\* VIDEO_READY and starts the frame loop.
SetVideoStream ==
  /\ ~transferring
  /\ transferring' = TRUE
  /\ Send("VIDEO_READY")
  /\ UNCHANGED <<iframe, isMediaPipeReady, readyPromise, initPromise, startPc, delivered,
                 reported>>

\* transferFrame(): one animation frame of the loop with MediaPipe ready.
TransferFrame ==
  /\ transferring
  /\ isMediaPipeReady
  /\ Send("VIDEO_FRAME")
  /\ UNCHANGED <<iframe, isMediaPipeReady, readyPromise, initPromise, startPc, transferring,
                 delivered, reported>>

\* dispose(): stop(), then the stream, the video element and the iframe go.
BridgeDispose ==
  /\ iframe
  /\ Send("STOP_TRACKING")
  /\ iframe' = FALSE
  /\ transferring' = FALSE
  /\ UNCHANGED <<isMediaPipeReady, readyPromise, initPromise, startPc, delivered, reported>>

\* ------------------------------------------------------------------------
\* Content script: startCamera / stopCamera
\* ------------------------------------------------------------------------

\* The tracker fields that initialize(), start(), stop() and dispose() leave alone.
trackerRest == <<variant, hasCallback, frameCounter, calibrationMatrix, isCalibrated,
                 gazeHistory, eyeHeightHistory, stableEyeHeight, viewport, emitted, lastEmit,
                 lastOp, calibrations, sameRun, arrivals>>

\* START_TRACKING: startCamera() with the camera granted and the video
\* playing, up to `await tracker.initialize()`: the tracker creates its
\* bridge and awaits the bridge's initialize().
StartCamera ==
  /\ cameraPc = "idle"
  /\ ~isActive
  /\ cameraPc' = "initializing"
  /\ bridgeReady' = TRUE
  /\ BridgeInitialize
  /\ calls' = Append(calls, "initializing")
  /\ stream' = Len(calls')
  /\ liveStreams' = liveStreams \cup {stream'}
  /\ tracker' = Len(calls')
  /\ liveTrackers' = liveTrackers \cup {tracker'}
  /\ UNCHANGED <<isRunning, trackerRest, systemVars, scriptVars, isActive, stoppedMidRun, startRuns, backgroundVars>>

\* tracker.initialize() has resolved: startCamera calls tracker.start(),
\* which awaits the bridge's video element playing.
InitializeReturns ==
  /\ cameraPc = "initializing"
  /\ initPromise = "resolved"
  /\ cameraPc' = "video"
  /\ calls' = [calls EXCEPT ![Len(calls)] = "starting"]
  /\ UNCHANGED <<trackerVars, systemVars, scriptVars, bridgeVars, isActive, stoppedMidRun,
                 stream, liveStreams, tracker, liveTrackers, startRuns, backgroundVars>>

\* tracker.initialize() has rejected: the catch block rethrows and the
\* promise of startCamera() rejects.
InitializeRejects ==
  /\ cameraPc = "initializing"
  /\ initPromise = "rejected"
  /\ cameraPc' = "failed"
  /\ calls' = [calls EXCEPT ![Len(calls)] = "failed"]
  /\ UNCHANGED <<trackerVars, systemVars, scriptVars, bridgeVars, isActive, stoppedMidRun,
                 stream, liveStreams, tracker, liveTrackers, startRuns, backgroundVars>>

\* The two messages of tracker.start(): VIDEO_READY from startVideoTransfer,
\* START_TRACKING from the bridge's start().
StartMessages ==
  <<[type |-> "VIDEO_READY", id |-> Len(sent) + 1],
    [type |-> "START_TRACKING", id |-> Len(sent) + 2]>>

\* The video plays: the transfer loop starts, isRunning is set, the bridge
\* (ready by now) is told to start, and startCamera goes on to
\* runCalibration().
VideoPlaying ==
  /\ cameraPc = "video"
  /\ isMediaPipeReady
  /\ transferring' = TRUE
  /\ isRunning' = TRUE
  /\ startPc' = "done"
  /\ sent' = sent \o StartMessages
  /\ messageQueue' = SendMessage(SendMessage(Channel(iframe, isMediaPipeReady, messageQueue, posted),
                                             StartMessages[1]), StartMessages[2]).queue
  /\ posted' = SendMessage(SendMessage(Channel(iframe, isMediaPipeReady, messageQueue, posted),
                                       StartMessages[1]), StartMessages[2]).posted
  /\ cameraPc' = "calibrating"
  /\ ScriptRunCalibration
  /\ calls' = [calls EXCEPT ![Len(calls)] = "calibrating"]
  /\ startRuns' = startRuns \cup {Len(calls)}
  /\ UNCHANGED <<bridgeReady, trackerRest, iframe, isMediaPipeReady, readyPromise, initPromise,
                 delivered, reported, isActive, stoppedMidRun, stream, liveStreams, tracker,
                 liveTrackers, backgroundVars>>

\* The run resolves, applyCalibration is called, runCalibration() returns
\* and startCamera sets isActive.
SessionCompletes ==
  /\ cameraPc = "calibrating"
  /\ CompletionApplies
  /\ isActive' = TRUE
  /\ cameraPc' = "active"
  /\ calls' = [calls EXCEPT ![Len(calls)] = "done"]
  /\ startRuns' = startRuns \ {Len(calls)}
  /\ UNCHANGED <<bridgeVars, stoppedMidRun, stream, liveStreams, tracker, liveTrackers,
                 backgroundVars>>

\* stopCamera() past its guard, on the script's own variables: the tracks of
\* the stream it holds are stopped, the tracker it holds is disposed, both
\* are set to null.
ReleaseCamera ==
  /\ liveStreams' = liveStreams \ {stream}
  /\ liveTrackers' = liveTrackers \ {tracker}
  /\ stream' = 0
  /\ tracker' = 0
  /\ UNCHANGED <<calls, startRuns>>

\* The three STOP_TRACKING of stopCamera: tracker.stop(), the stop() inside
\* tracker.dispose(), the stop() inside the bridge's dispose().
StopMessages ==
  [i \in 1..3 |-> [type |-> "STOP_TRACKING", id |-> Len(sent) + i]]

\* STOP_TRACKING: stopCamera().  Unless isActive it returns at once;
\* otherwise the tracker is stopped and disposed (the bridge with it) and
\* isActive cleared.
StopCamera ==
  IF ~isActive
  THEN /\ stoppedMidRun' = (stoppedMidRun \/ cameraPc = "calibrating")
       /\ UNCHANGED <<trackerVars, systemVars, scriptVars, bridgeVars, isActive, cameraPc,
                      startupVars, backgroundVars>>
  ELSE /\ isRunning' = FALSE
       /\ bridgeReady' = FALSE
       /\ sent' = sent \o StopMessages
       /\ messageQueue' = SendMessage(SendMessage(SendMessage(
                              Channel(iframe, isMediaPipeReady, messageQueue, posted),
                              StopMessages[1]), StopMessages[2]), StopMessages[3]).queue
       /\ posted' = SendMessage(SendMessage(SendMessage(
                        Channel(iframe, isMediaPipeReady, messageQueue, posted),
                        StopMessages[1]), StopMessages[2]), StopMessages[3]).posted
       /\ iframe' = FALSE
       /\ transferring' = FALSE
       /\ isActive' = FALSE
       /\ cameraPc' = "stopped"
       /\ ReleaseCamera
       /\ UNCHANGED <<trackerRest, systemVars, scriptVars, isMediaPipeReady, readyPromise,
                      initPromise, startPc, delivered, reported, stoppedMidRun, backgroundVars>>

\* The position of call i becomes pc.
Moves(i, pc) == calls' = [calls EXCEPT ![i] = pc]

\* The catch block of startCamera: it logs, shows 'Error' and rethrows.
Throws(i) ==
  /\ Moves(i, "failed")
  /\ UNCHANGED <<isActive, stream, liveStreams, tracker, liveTrackers, startRuns>>

\* START_TRACKING: startCamera() returns at once when isActive; otherwise it
\* creates the UI and awaits getUserMedia.
StartTracking ==
  /\ calls' = Append(calls, IF isActive THEN "returned" ELSE "camera")
  /\ UNCHANGED <<isActive, stream, liveStreams, tracker, liveTrackers, startRuns>>

\* getUserMedia resolves: stream = the new MediaStream; the call awaits the
\* video playing.
CameraGranted(i) ==
  /\ calls[i] = "camera"
  /\ Moves(i, "video")
  /\ stream' = i
  /\ liveStreams' = liveStreams \cup {i}
  /\ UNCHANGED <<isActive, tracker, liveTrackers, startRuns>>

\* getUserMedia rejects.
CameraDenied(i) == calls[i] = "camera" /\ Throws(i)

\* The video plays: tracker = new MediaPipeTracker(...) and the call awaits
\* tracker.initialize().
VideoPlays(i) ==
  /\ calls[i] = "video"
  /\ Moves(i, "initializing")
  /\ tracker' = i
  /\ liveTrackers' = liveTrackers \cup {i}
  /\ UNCHANGED <<isActive, stream, liveStreams, startRuns>>

\* The 5 s timer rejects first ('Video timeout'), or play() rejects.
VideoTimeout(i) == calls[i] = "video" /\ Throws(i)

\* tracker.initialize() resolves: the call evaluates tracker.start(), on
\* whatever `tracker` holds by now (a TypeError when it is null).
TrackerInitialized(i) ==
  /\ calls[i] = "initializing"
  /\ IF tracker = 0
     THEN Throws(i)
     ELSE /\ Moves(i, "starting")
          /\ UNCHANGED <<isActive, stream, liveStreams, tracker, liveTrackers, startRuns>>

\* tracker.initialize() rejects.
TrackerInitFails(i) == calls[i] = "initializing" /\ Throws(i)

\* tracker.start() resolves: the call awaits runCalibration(), which returns
\* at once when `tracker` is null and starts a calibration run otherwise.
TrackerStarted(i) ==
  /\ calls[i] = "starting"
  /\ Moves(i, "calibrating")
  /\ startRuns' = (IF tracker = 0 THEN startRuns ELSE startRuns \cup {i})
  /\ UNCHANGED <<isActive, stream, liveStreams, tracker, liveTrackers>>

\* tracker.start() rejects.
TrackerStartFails(i) == calls[i] = "starting" /\ Throws(i)

\* runCalibration() returns: isActive = true.
CalibrationReturns(i) ==
  /\ calls[i] = "calibrating"
  /\ Moves(i, "done")
  /\ startRuns' = startRuns \ {i}
  /\ isActive' = TRUE
  /\ UNCHANGED <<stream, liveStreams, tracker, liveTrackers>>

\* STOP_TRACKING: stopCamera(), on the script's own variables.
StopTracking ==
  IF ~isActive
  THEN UNCHANGED <<isActive, startupVars>>
  ELSE ReleaseCamera /\ isActive' = FALSE

\* ------------------------------------------------------------------------
\* Background script
\* ------------------------------------------------------------------------

Tabs == 1..NumTabs

\* const state: AppState = { isActive: false, settings } (currentTabId undefined)
\* The popup is opened over tab 1.
InitBackground ==
  /\ state = [isActive |-> FALSE, currentTabId |-> 0]
  /\ requests = <<>>
  /\ activeTab = 1
  /\ closedTabs = {}
  /\ lastStop = [to |-> 0, recorded |-> 0]

Request(type, pc, tab) == [type |-> type, pc |-> pc, tab |-> tab]

\* state.isActive = false; state.currentTabId = undefined
Cleared == [isActive |-> FALSE, currentTabId |-> 0]

\* chrome.runtime.onMessage: startForActiveTab / stopForActiveTab is called
\* and awaits chrome.tabs.query.
OnMessage(type) ==
  /\ requests' = Append(requests, Request(type, "query", 0))
  /\ UNCHANGED <<state, activeTab, closedTabs, lastStop>>

\* The query returns the active tab.  Without one the handler returns;
\* otherwise startForActiveTab records it as currentTabId, and both await
\* ensureContentReady.
QueryReturns(i) ==
  /\ requests[i].pc = "query"
  /\ IF activeTab = 0
     THEN /\ requests' = [requests EXCEPT ![i] = Request(requests[i].type, "done", 0)]
          /\ UNCHANGED state
     ELSE /\ requests' = [requests EXCEPT ![i] = Request(requests[i].type, "ensure", activeTab)]
          /\ state' = (IF requests[i].type = "START_TRACKING"
                        THEN [state EXCEPT !.currentTabId = activeTab]
                        ELSE state)
  /\ UNCHANGED <<activeTab, closedTabs, lastStop>>

\* ensureContentReady returns: with ok the message is sent to the tab the
\* query returned, without it the handler returns.
EnsureReturns(i, ok) ==
  /\ requests[i].pc = "ensure"
  /\ ok => requests[i].tab \notin closedTabs
  /\ requests' = [requests EXCEPT ![i] = IF ok THEN Request(requests[i].type, "sent", requests[i].tab)
                                                ELSE Request(requests[i].type, "done", 0)]
  /\ UNCHANGED <<state, activeTab, closedTabs, lastStop>>

\* The callback of chrome.tabs.sendMessage.  chrome.runtime.lastError is set
\* when the tab is gone; otherwise the content script has answered (to
\* START_TRACKING when startCamera() settled, to STOP_TRACKING at once).
DeliveryCallback(i) ==
  /\ requests[i].pc = "sent"
  /\ requests' = [requests EXCEPT ![i] = Request(requests[i].type, "done", 0)]
  /\ IF requests[i].tab \in closedTabs
     THEN UNCHANGED <<state, lastStop>>
     ELSE IF requests[i].type = "START_TRACKING"
          THEN state' = [state EXCEPT !.isActive = TRUE] /\ UNCHANGED lastStop
          ELSE /\ state' = Cleared
               /\ lastStop' = [to |-> requests[i].tab, recorded |-> state.currentTabId]
  /\ UNCHANGED <<activeTab, closedTabs>>

\* chrome.tabs.onRemoved: the state is cleared when the tab is currentTabId.
\* Another tab, or none, becomes the active one when the active tab goes.
TabRemoved(tabId, next) ==
  /\ tabId \notin closedTabs
  /\ closedTabs' = closedTabs \cup {tabId}
  /\ state' = (IF tabId = state.currentTabId THEN Cleared ELSE state)
  /\ activeTab' = (IF activeTab = tabId THEN next ELSE activeTab)
  /\ next = 0 \/ next \in Tabs \ closedTabs'
  /\ activeTab # tabId => next = 0
  /\ UNCHANGED <<requests, lastStop>>

\* The user switches to another tab.
TabActivated(tabId) ==
  /\ tabId \notin closedTabs
  /\ tabId # activeTab
  /\ activeTab' = tabId
  /\ UNCHANGED <<state, requests, closedTabs, lastStop>>

\* ------------------------------------------------------------------------
\* Calibration inputs
\* ------------------------------------------------------------------------

\* The target an affine map T assigns to the normalized point (nx, ny).
MapX(T, nx, ny) == Add(Add(Mul(T.a, nx), Mul(T.b, ny)), T.tx)

MapY(T, nx, ny) == Add(Add(Mul(T.c, nx), Mul(T.d, ny)), T.ty)

\* A sample measured at (nx, ny) whose target is T(nx, ny), with no stdDev.
On(T, nx, ny) ==
  Sample(MapX(T, nx, ny), MapY(T, nx, ny), MapX(T, nx, ny), MapY(T, nx, ny),
         TRUE, nx, ny, FALSE, I(0))

\* The same with a recorded stdDev and the target displaced by (ex, ey).
Noisy(T, nx, ny, ex, ey, std) ==
  Sample(Add(MapX(T, nx, ny), ex), Add(MapY(T, nx, ny), ey), MapX(T, nx, ny), MapY(T, nx, ny),
         TRUE, nx, ny, TRUE, std)

\* The same without normalized coordinates (measured.x / measured.y only).
Bare(T, nx, ny) ==
  Sample(MapX(T, nx, ny), MapY(T, nx, ny), MapX(T, nx, ny), MapY(T, nx, ny),
         FALSE, I(0), I(0), FALSE, I(0))

Aff(a, b, c, d, tx, ty) == [a |-> a, b |-> b, c |-> c, d |-> d, tx |-> tx, ty |-> ty]

\* In range for both viewports, with cross-axis coupling.
TGood == Aff(I(150), I(20), I(10), I(80), I(50), I(25))

\* X scale below the range of either viewport.
TSmallX == Aff(I(10), I(0), I(0), I(80), I(50), I(25))

\* X scale above the range of either viewport.
TBigX == Aff(I(700), I(0), I(0), I(80), I(50), I(25))

\* X scale in range, Y scale below the range.
TSmallY == Aff(I(150), I(0), I(0), I(10), I(50), I(25))

\* X scale exactly 0.2 * (120 / 0.6) and Y scale exactly 3 * (120 / 0.6).
TEdge == Aff(I(40), I(0), I(0), I(600), I(50), I(25))

N3 == Q(3, 10)

Corners(T) == <<On(T, Neg(N3), Neg(N3)), On(T, N3, Neg(N3)), On(T, Neg(N3), N3), On(T, N3, N3)>>

LEmpty == <<>>

\* Three good samples: too few for the affine fit.
LThree == SubSeq(Corners(TGood), 1, 3)

\* Four exact samples.
LFour == Corners(TGood)

\* Four exact samples and one displaced one: a fit with a residual.
LResidual == Corners(TGood) \o <<Noisy(TGood, I(0), I(0), I(6), I(-3), I(10))>>

\* Four exact samples and one far-off sample with stdDev 500.
LOutlier == Corners(TGood) \o <<Noisy(TGood, I(0), N3, I(40), I(-20), I(500))>>

\* Five samples of which two have stdDev 60 and 500: three survive.
LFiltered == SubSeq(Corners(TGood), 1, 3)
               \o <<Noisy(TGood, N3, N3, I(0), I(0), I(60)), Noisy(TGood, I(0), I(0), I(0), I(0), I(500))>>

\* Four samples measured at the same normalized point.
LSame == <<On(TGood, N3, N3), Noisy(TGood, N3, N3, I(5), I(0), I(10)),
           Noisy(TGood, N3, N3, I(0), I(5), I(10)), Noisy(TGood, N3, N3, I(-5), I(-5), I(10))>>

\* Four samples measured on one line.
LCollinear == <<On(TGood, Neg(N3), Neg(N3)), On(TGood, I(0), I(0)), On(TGood, N3, N3), On(TGood, Q(1, 10), Q(1, 10))>>

\* Four samples without normalized coordinates.
LBare == <<Bare(TGood, Neg(N3), Neg(N3)), Bare(TGood, N3, Neg(N3)), Bare(TGood, Neg(N3), N3), Bare(TGood, N3, N3)>>

\* Four exact samples and one displaced sample with stdDev exactly 50.
LBoundary == Corners(TGood) \o <<Noisy(TGood, I(0), I(0), I(6), I(-3), I(MAX_STDDEV))>>

\* Four exact samples and one displaced sample with stdDev 0.
LZeroStd == Corners(TGood) \o <<Noisy(TGood, I(0), I(0), I(6), I(-3), I(0))>>

LSmallX == Corners(TSmallX)

\* A sample whose target is the point pt and whose measured normalized gaze
\* is the unit-normalized target, 2 * x / sw - 1 and 2 * y / sh - 1.
OnTarget(pt, sw, sh) ==
  Sample(pt.x, pt.y, pt.x, pt.y, TRUE,
         Sub(Div(Mul(I(2), pt.x), sw), I(1)), Sub(Div(Mul(I(2), pt.y), sh), I(1)), FALSE, I(0))

RECURSIVE OnTargets(_, _, _)
OnTargets(targets, sw, sh) ==
  IF Len(targets) = 0 THEN <<>>
  ELSE <<OnTarget(Head(targets), sw, sh)>> \o OnTargets(Tail(targets), sw, sh)

\* The nine grid samples of a viewport with measured == actual.
IdentitySamples(vp) == OnTargets(GenerateCalibrationGrid(vp), I(vp[1]), I(vp[2]))

LBigX == Corners(TBigX)

LSmallY == Corners(TSmallY)

LEdge == Corners(TEdge)

CalibrationInputs == {LEmpty, LThree, LFour, LResidual, LOutlier, LFiltered, LSame,
                      LCollinear, LBare, LSmallX, LBigX, LSmallY, LEdge, LBoundary, LZeroStd}

Variants == {"linear", "affine"}

Viewports == {<<120, 60>>, <<60, 30>>}

InitTracker ==
  /\ variant \in Variants
  /\ hasCallback \in BOOLEAN
  /\ bridgeReady = FALSE
  /\ isRunning = FALSE
  /\ frameCounter = 0
  /\ calibrationMatrix = (IF variant = "affine" THEN IdentityAffine ELSE IdentityLinear)
  /\ isCalibrated = FALSE
  /\ gazeHistory = <<>>
  /\ eyeHeightHistory = <<>>
  /\ stableEyeHeight = DefaultStableEyeHeight
  /\ viewport \in Viewports
  /\ emitted = 0
  /\ lastEmit = NoEmit
  /\ lastOp = Op("new", FNoLandmarks, <<>>, FALSE)
  /\ sameRun = NoRun
  /\ arrivals = <<>>
  /\ calibrations = 0

\* No calibration or validation run has been started; no gaze has arrived.
InitSystem ==
  /\ calPc = "idle"
  /\ countdown = 0
  /\ targetPoints = <<>>
  /\ currentIndex = 0
  /\ errors = <<>>
  /\ validation = NoValidation
  /\ captureLog = <<>>
  /\ runs = 0
  /\ resolutions = 0
  /\ currentHeadPose = NoPose
  /\ initialHeadPose = NoPose
  /\ headCheckInterval = FALSE
  /\ headIndicator = "none"

\* The cursor conditioner as the script's top level leaves it.
InitCursor ==
  /\ smoothedX = I(0)
  /\ smoothedY = I(0)
  /\ displayX = I(0)
  /\ displayY = I(0)
  /\ isFirstGaze = TRUE
  /\ frameSkip = 0
  /\ gazeUpdates = 0

InitScript ==
  /\ currentGaze = NoGaze
  /\ samples = <<>>
  /\ calibrationData = <<>>
  /\ gazeStream = "none"
  /\ ticks = 0
  /\ capturePc = "none"
  /\ validSamples = <<>>
  /\ InitCursor

\* A SandboxBridge as its constructor leaves it, initialize() not yet called,
\* in a content script that has not been asked to start.
InitBridge ==
  /\ iframe = FALSE
  /\ isMediaPipeReady = FALSE
  /\ messageQueue = <<>>
  /\ readyPromise = "pending"
  /\ initPromise = "none"
  /\ startPc = "none"
  /\ transferring = FALSE
  /\ sent = <<>>
  /\ posted = <<>>
  /\ delivered = <<>>
  /\ reported = 0
  /\ isActive = FALSE
  /\ cameraPc = "idle"
  /\ stoppedMidRun = FALSE
  /\ calls = <<>>
  /\ stream = 0
  /\ liveStreams = {}
  /\ tracker = 0
  /\ liveTrackers = {}
  /\ startRuns = {}
  /\ InitBackground

Init == InitTracker /\ InitSystem /\ InitScript /\ InitBridge

\* The frames of the estimator runs: one open-eye frame at the blink
\* threshold, one blink, every malformed shape, and the degenerate frame.
EstimatorFrames == {FOpenA, FBlink, FShort, FNoLandmarks, FNoLeftIris, FNoRightIris,
                    FDegenerate}

DeliverFrame ==
  /\ \E data \in EstimatorFrames : frameCounter < MaxFrames /\ HandleGazeData(data)
  /\ UNCHANGED <<systemVars, scriptVars, bridgeVars, sessionVars>>

Resize == \E vp \in Viewports : ResizeViewport(vp)

Calibrate ==
  /\ \E points \in {LThree} : calibrations < MaxCalibrations /\ ApplyCalibration(points)
  /\ UNCHANGED <<systemVars, scriptVars, bridgeVars, sessionVars>>

Next ==
  \/ Initialize
  \/ Start
  \/ Stop
  \/ DeliverFrame
  \/ Resize
  \/ Calibrate

Spec == Init /\ [][Next]_vars

\* Smoothing runs: a started tracker with a callback, fed frames of equal
\* eye height that map to two different screen points, and blinks.
SmoothFrames == {FOpenA, FEdge, FBlink}

InitSmooth == InitTracker /\ InitSystem /\ InitScript /\ InitBridge /\ hasCallback = TRUE /\ viewport = <<120, 60>>

DeliverSmooth ==
  /\ \E data \in SmoothFrames : frameCounter < MaxSmoothFrames /\ HandleGazeData(data)
  /\ UNCHANGED <<systemVars, scriptVars, bridgeVars, sessionVars>>

NextSmooth ==
  \/ Initialize
  \/ Start
  \/ DeliverSmooth

SpecSmooth == InitSmooth /\ [][NextSmooth]_vars

\* History runs: a tracker fed, while it runs, open-eye frames of two eye
\* heights and two screen points, and blinks.  The first FreePrefix open-eye
\* frames are either one; from then on every third one is the taller.
HistoryFrames(k) ==
  IF k <= FreePrefix THEN {FOpenA, FOpenB}
  ELSE IF k % 3 = 1 THEN {FOpenB} ELSE {FOpenA}

InitHistory == InitTracker /\ InitSystem /\ InitScript /\ InitBridge /\ viewport = <<120, 60>>

DeliverOpen ==
  /\ \E data \in HistoryFrames(Len(arrivals) + 1) :
       isRunning /\ frameCounter < MaxHistoryFrames /\ HandleGazeData(data)
  /\ UNCHANGED <<systemVars, scriptVars, bridgeVars, sessionVars>>

DeliverBlink ==
  /\ isRunning /\ frameCounter < MaxHistoryFrames /\ HandleGazeData(FBlink)
  /\ UNCHANGED <<systemVars, scriptVars, bridgeVars, sessionVars>>

NextHistory ==
  \/ Initialize
  \/ Start
  \/ DeliverOpen
  \/ DeliverBlink

SpecHistory == InitHistory /\ [][NextHistory]_vars

\* Resize runs: open-eye frames near both screen edges and a blink, with
\* resizes and a calibration in between.
ResizeFrames == {FOpenA, FOpenB, FBlink}

DeliverResize ==
  /\ \E data \in ResizeFrames : frameCounter < MaxFrames /\ HandleGazeData(data)
  /\ UNCHANGED <<systemVars, scriptVars, bridgeVars, sessionVars>>

NextResize ==
  \/ Initialize
  \/ Start
  \/ DeliverResize
  \/ Resize
  \/ Calibrate

InitResize == InitTracker /\ InitSystem /\ InitScript /\ InitBridge /\ hasCallback = TRUE

SpecResize == InitResize /\ [][NextResize]_vars

\* Refits: calibrations of a tracker that has frames in its histories, with
\* no sample, with too few for the affine fit, and with four exact ones.
RefitInputs == {LEmpty, LThree, LFour}

InitRefit == InitTracker /\ InitSystem /\ InitScript /\ InitBridge
             /\ hasCallback = TRUE /\ viewport = <<120, 60>>

Refit ==
  /\ \E points \in RefitInputs : calibrations < MaxRefits /\ ApplyCalibration(points)
  /\ UNCHANGED <<systemVars, scriptVars, bridgeVars, sessionVars>>

NextRefit ==
  \/ Initialize
  \/ Start
  \/ DeliverResize
  \/ Refit

SpecRefit == InitRefit /\ [][NextRefit]_vars

\* Calibration runs: applyCalibration over the whole input catalogue,
\* under either viewport.
InitCalib == InitTracker /\ InitSystem /\ InitScript /\ InitBridge /\ hasCallback = TRUE

\* The viewports of the fitter runs: the two above and one of ratio 3:2.
CalibViewports == Viewports \cup {<<90, 60>>}

ResizeCalib == \E vp \in CalibViewports : ResizeViewport(vp)

Fit ==
  /\ \E points \in CalibrationInputs \cup {IdentitySamples(viewport)} :
       calibrations < MaxFits /\ ApplyCalibration(points)
  /\ UNCHANGED <<systemVars, scriptVars, bridgeVars, sessionVars>>

NextCalib ==
  \/ Fit
  \/ ResizeCalib

SpecCalib == InitCalib /\ [][NextCalib]_vars

\* CalibrationSystem runs: calibration and validation runs of either system
\* under a caller whose capture routine resolves with the target displaced
\* by one of a few offsets, or rejects; the window may be resized meanwhile.
CaptureOffsets == {Pt(I(0), I(0)), Pt(I(3), I(4)), Pt(I(-60), I(80))}

InitRuns == InitTracker /\ InitSystem /\ InitScript /\ InitBridge /\ hasCallback = TRUE

NextRuns ==
  \/ RunCalibration /\ UNCHANGED <<trackerVars, scriptVars, bridgeVars, sessionVars>>
  \/ CountdownTick /\ UNCHANGED <<trackerVars, scriptVars, bridgeVars, sessionVars>>
  \/ StartTimeout /\ UNCHANGED <<trackerVars, scriptVars, bridgeVars, sessionVars>>
  \/ DwellTimeout /\ UNCHANGED <<trackerVars, scriptVars, bridgeVars, sessionVars>>
  \/ CaptureResolved(targetPoints[currentIndex + 1]) /\ UNCHANGED <<trackerVars, scriptVars, bridgeVars, sessionVars>>
  \/ CaptureRejected /\ UNCHANGED <<trackerVars, scriptVars, bridgeVars, sessionVars>>
  \/ SuccessTimeout /\ UNCHANGED <<trackerVars, scriptVars, bridgeVars, sessionVars>>
  \/ CompletionTimeout /\ UNCHANGED <<trackerVars, scriptVars, bridgeVars, sessionVars>>
  \/ RunValidation /\ UNCHANGED <<trackerVars, scriptVars, bridgeVars, sessionVars>>
  \/ ValidationStartTimeout /\ UNCHANGED <<trackerVars, scriptVars, bridgeVars, sessionVars>>
  \/ ValidationDwellTimeout /\ UNCHANGED <<trackerVars, scriptVars, bridgeVars, sessionVars>>
  \/ \E off \in CaptureOffsets :
       /\ ValidationCaptureResolved(Pt(Add(targetPoints[currentIndex + 1].x, off.x),
                                       Add(targetPoints[currentIndex + 1].y, off.y)))
       /\ UNCHANGED <<trackerVars, scriptVars, bridgeVars, sessionVars>>
  \/ ValidationPauseTimeout /\ UNCHANGED <<trackerVars, scriptVars, bridgeVars, sessionVars>>
  \/ ValidationResultTimeout /\ UNCHANGED <<trackerVars, scriptVars, bridgeVars, sessionVars>>
  \/ Resize

SpecRuns == InitRuns /\ [][NextRuns]_vars

\* Calibration runs in which a pending timer fires and a pending capture
\* settles sooner or later (it may still reject).
RunProgress ==
  /\ \/ CountdownTick
     \/ StartTimeout
     \/ DwellTimeout
     \/ CaptureResolved(targetPoints[currentIndex + 1])
     \/ CaptureRejected
     \/ SuccessTimeout
     \/ CompletionTimeout
  /\ UNCHANGED <<trackerVars, scriptVars, bridgeVars, sessionVars>>

SpecRunsFair == SpecRuns /\ WF_vars(RunProgress)

\* Calibration runs of the improved system under a moving head: the tracker
\* reports a new pose at any time, and the 100 ms head check ticks while it
\* is armed.
HeadPoses ==
  { HeadPose2(I(0), I(0)),
    HeadPose2(Q(5, 100), Q(5, 100)),
    HeadPose2(Q(6, 100), Q(6, 100)),
    HeadPose2(Q(8, 100), I(0)),
    HeadPose2(Q(10, 100), I(0)) }

InitHead == InitTracker /\ InitSystem /\ InitScript /\ InitBridge
            /\ variant = "affine" /\ hasCallback = TRUE /\ viewport = <<120, 60>>

NextHead ==
  \/ RunCalibration /\ UNCHANGED <<trackerVars, scriptVars, bridgeVars, sessionVars>>
  \/ CountdownTick /\ UNCHANGED <<trackerVars, scriptVars, bridgeVars, sessionVars>>
  \/ StartTimeout /\ UNCHANGED <<trackerVars, scriptVars, bridgeVars, sessionVars>>
  \/ DwellTimeout /\ UNCHANGED <<trackerVars, scriptVars, bridgeVars, sessionVars>>
  \/ CaptureResolved(targetPoints[currentIndex + 1]) /\ UNCHANGED <<trackerVars, scriptVars, bridgeVars, sessionVars>>
  \/ SuccessTimeout /\ UNCHANGED <<trackerVars, scriptVars, bridgeVars, sessionVars>>
  \/ CompletionTimeout /\ UNCHANGED <<trackerVars, scriptVars, bridgeVars, sessionVars>>
  \/ \E pose \in HeadPoses :
       UpdateHeadPose(pose) /\ UNCHANGED <<trackerVars, scriptVars, bridgeVars, sessionVars>>
  \/ HeadCheck /\ UNCHANGED <<trackerVars, scriptVars, bridgeVars, sessionVars>>

SpecHead == InitHead /\ [][NextHead]_vars

\* Content-script calibrations: runs of either script over its system; the
\* window may be resized between captures.  The gaze objects that arrive
\* during a capture are given by a stream:
\*   "fresh"    a new object before every interval callback, three of them
\*              far to the right of the target;
\*   "stalled"  three objects in all, polled 20, 27 and 3 times (the plain
\*              script: 20 and 10 times), the last far to the right;
\*   "late"     nothing before the first five callbacks, so the script polls
\*              nothing, or the last object of the previous capture;
\*   "frozen"   one object per capture.
GazeStreams == {"fresh", "stalled", "late", "frozen"}

OutlierTicks == {10, 20, 30}

\* The object emitted while the user looks (dx, dy) off target; its raw
\* normalized coordinates follow the target.
Looking(id, target, dx, dy) ==
  GazePoint(id, Add(target.x, I(dx)), Add(target.y, I(dy)),
            Sub(Div(target.x, I(30)), I(1)), Sub(Div(target.y, I(15)), I(1)))

FreshAt(t, target) ==
  Looking(t, target, IF t \in OutlierTicks THEN 20 ELSE ((t * 3) % 7) - 3, ((t * 2) % 5) - 2)

\* The object handed to handleGazeUpdate before interval callback t of a
\* capture of target; NoGaze when none arrives.
Arrival(kind, t, target) ==
  CASE kind = "fresh" -> FreshAt(t, target)
    [] kind = "stalled" -> (IF t = 1 THEN Looking(1, target, 0, 0)
                              ELSE IF t = 21 THEN Looking(21, target, 2, -2)
                              ELSE IF t = 48 THEN Looking(48, target, 20, 0)
                              ELSE NoGaze)
    [] kind = "late" -> (IF t <= 5 THEN NoGaze ELSE FreshAt(t, target))
    [] kind = "frozen" -> (IF t = 1 THEN Looking(1, target, 0, 0) ELSE NoGaze)
    [] OTHER -> NoGaze

NextArrival == Arrival(gazeStream, ticks + 1, targetPoints[currentIndex + 1])

InitPolling ==
  /\ InitTracker
  /\ InitSystem
  /\ hasCallback = TRUE
  /\ currentGaze = NoGaze
  /\ samples = <<>>
  /\ calibrationData = <<>>
  /\ gazeStream \in GazeStreams
  /\ ticks = 0
  /\ capturePc = "none"
  /\ validSamples = <<>>
  /\ InitCursor
  /\ InitBridge

NextPolling ==
  \/ ScriptRunCalibration /\ UNCHANGED <<trackerVars, bridgeVars, sessionVars>>
  \/ CountdownTick /\ UNCHANGED <<trackerVars, scriptVars, bridgeVars, sessionVars>>
  \/ StartTimeout /\ UNCHANGED <<trackerVars, scriptVars, bridgeVars, sessionVars>>
  \/ OnGazeCapture /\ UNCHANGED <<trackerVars, bridgeVars, sessionVars>>
  \/ SettleTimeout /\ UNCHANGED <<trackerVars, systemVars, bridgeVars, sessionVars>>
  \/ /\ calPc = "capturing"
     /\ capturePc = "polling"
     /\ NextArrival.valid
     /\ currentGaze # NextArrival
     /\ HandleGazeUpdate(NextArrival)
     /\ UNCHANGED <<trackerVars, systemVars, bridgeVars, sessionVars, cursorVars>>
  \/ /\ calPc = "capturing"
     /\ capturePc = "polling"
     /\ NextArrival.valid => currentGaze = NextArrival
     /\ PollTick
     /\ UNCHANGED <<bridgeVars, sessionVars>>
  \/ SuccessTimeout /\ UNCHANGED <<trackerVars, scriptVars, bridgeVars, sessionVars>>
  \/ CompletionApplies /\ UNCHANGED <<bridgeVars, sessionVars>>
  \/ capturePc = "none" /\ Resize

SpecPolling == InitPolling /\ [][NextPolling]_vars

\* Collections: calibration runs of either script in one window, under a
\* tracker that emits one object per capture or nothing before the first
\* five callbacks of each.
CollectStreams == {"late", "frozen"}

InitCollect == InitPolling /\ gazeStream \in CollectStreams /\ viewport = <<120, 60>>

NextCollect ==
  \/ ScriptRunCalibration /\ UNCHANGED <<trackerVars, bridgeVars, sessionVars>>
  \/ CountdownTick /\ UNCHANGED <<trackerVars, scriptVars, bridgeVars, sessionVars>>
  \/ StartTimeout /\ UNCHANGED <<trackerVars, scriptVars, bridgeVars, sessionVars>>
  \/ OnGazeCapture /\ UNCHANGED <<trackerVars, bridgeVars, sessionVars>>
  \/ SettleTimeout /\ UNCHANGED <<trackerVars, systemVars, bridgeVars, sessionVars>>
  \/ /\ calPc = "capturing"
     /\ capturePc = "polling"
     /\ NextArrival.valid
     /\ currentGaze # NextArrival
     /\ HandleGazeUpdate(NextArrival)
     /\ UNCHANGED <<trackerVars, systemVars, bridgeVars, sessionVars, cursorVars>>
  \/ /\ calPc = "capturing"
     /\ capturePc = "polling"
     /\ NextArrival.valid => currentGaze = NextArrival
     /\ PollTick
     /\ UNCHANGED <<bridgeVars, sessionVars>>
  \/ SuccessTimeout /\ UNCHANGED <<trackerVars, scriptVars, bridgeVars, sessionVars>>
  \/ CompletionApplies /\ UNCHANGED <<bridgeVars, sessionVars>>

SpecCollect == InitCollect /\ [][NextCollect]_vars

\* The 40 ms (50 ms) interval keeps firing until it is cleared: while a
\* collection polls, another callback runs sooner or later.
IntervalFires ==
  /\ calPc = "capturing"
  /\ capturePc = "polling"
  /\ ticks' = ticks + 1

SpecCollectFair == SpecCollect /\ WF_ticks(IntervalFires)

\* Cursor runs: the trimming content script receives gaze points from the
\* affine tracker, among them the one with NaN coordinates that a frame
\* with eyes of zero width and height produces.
CursorCoords == {<<0, 0>>, <<120, 40>>, <<120, 60>>, <<120, 0>>, <<0, 60>>, <<0, 40>>}

CursorGazes(id) ==
  {GazePoint(id, I(c[1]), I(c[2]), Q(1, 2), Q(1, 2)) : c \in CursorCoords}
    \cup {GazePoint(id, NaN, NaN, NaN, NaN)}

InitCursorRun == InitTracker /\ InitSystem /\ InitScript /\ InitBridge
                 /\ variant = "affine" /\ hasCallback = TRUE /\ viewport = <<120, 60>>

NextCursor ==
  \/ /\ gazeUpdates < MaxGazeUpdates
     /\ \E gaze \in CursorGazes(gazeUpdates + 1) :
          /\ HandleGazeUpdate(gaze)
          /\ ConditionCursor(gaze)
     /\ UNCHANGED <<trackerVars, systemVars, bridgeVars, sessionVars>>

SpecCursor == InitCursorRun /\ [][NextCursor]_vars

\* Start-up runs: a content script receives START_TRACKING and STOP_TRACKING
\* in any order while earlier startCamera() calls are still awaiting; every
\* await may resolve or reject.  The tracker, the bridge and the calibration
\* behind the awaits are left out.
startupRest == <<trackerVars, systemVars, scriptVars, bridgeVars, cameraPc, stoppedMidRun,
                 backgroundVars>>

InitStartups == InitTracker /\ InitSystem /\ InitScript /\ InitBridge
                /\ variant = "affine" /\ hasCallback = TRUE /\ viewport = <<120, 60>>

NextStartups ==
  \/ Len(calls) < MaxStarts /\ StartTracking /\ UNCHANGED startupRest
  \/ \E i \in 1..Len(calls) : CameraGranted(i) /\ UNCHANGED startupRest
  \/ \E i \in 1..Len(calls) : CameraDenied(i) /\ UNCHANGED startupRest
  \/ \E i \in 1..Len(calls) : VideoPlays(i) /\ UNCHANGED startupRest
  \/ \E i \in 1..Len(calls) : VideoTimeout(i) /\ UNCHANGED startupRest
  \/ \E i \in 1..Len(calls) : TrackerInitialized(i) /\ UNCHANGED startupRest
  \/ \E i \in 1..Len(calls) : TrackerInitFails(i) /\ UNCHANGED startupRest
  \/ \E i \in 1..Len(calls) : TrackerStarted(i) /\ UNCHANGED startupRest
  \/ \E i \in 1..Len(calls) : TrackerStartFails(i) /\ UNCHANGED startupRest
  \/ \E i \in 1..Len(calls) : CalibrationReturns(i) /\ UNCHANGED startupRest
  \/ StopTracking /\ UNCHANGED startupRest

SpecStartups == InitStartups /\ [][NextStartups]_vars

\* Background runs: the popup sends START_TRACKING and STOP_TRACKING in any
\* order, the user switches and closes tabs, and every await and callback of
\* the handlers runs whenever the browser gets to it.
backgroundRest == <<trackerVars, systemVars, scriptVars, bridgeVars, isActive, cameraPc,
                    stoppedMidRun, startupVars>>

InitBackgroundRun == InitTracker /\ InitSystem /\ InitScript /\ InitBridge
                     /\ variant = "affine" /\ hasCallback = TRUE /\ viewport = <<120, 60>>

NextBackground ==
  \/ /\ Len(requests) < MaxRequests
     /\ \E type \in {"START_TRACKING", "STOP_TRACKING"} : OnMessage(type)
     /\ UNCHANGED backgroundRest
  \/ \E i \in 1..Len(requests) : QueryReturns(i) /\ UNCHANGED backgroundRest
  \/ \E i \in 1..Len(requests) : \E ok \in BOOLEAN : EnsureReturns(i, ok) /\ UNCHANGED backgroundRest
  \/ \E i \in 1..Len(requests) : DeliveryCallback(i) /\ UNCHANGED backgroundRest
  \/ \E tabId \in Tabs : \E next \in Tabs \cup {0} : TabRemoved(tabId, next) /\ UNCHANGED backgroundRest
  \/ \E tabId \in Tabs : TabActivated(tabId) /\ UNCHANGED backgroundRest

SpecBackground == InitBackgroundRun /\ [][NextBackground]_vars

\* Bridge runs: one SandboxBridge under a caller that may call initialize,
\* start, stop, setVideoStream and dispose at any time, and a sandbox that
\* may post SANDBOX_READY and MEDIAPIPE_READY (with or without success) at
\* any time while the iframe exists.
InitBridgeRuns == InitTracker /\ InitSystem /\ InitScript /\ InitBridge
                  /\ variant = "affine" /\ hasCallback = TRUE /\ viewport = <<120, 60>>

NextBridge ==
  \/ BridgeInitialize /\ UNCHANGED <<trackerVars, systemVars, scriptVars, sessionVars>>
  \/ InitResolves /\ UNCHANGED <<trackerVars, systemVars, scriptVars, sessionVars>>
  \/ ReadyTimeout /\ UNCHANGED <<trackerVars, systemVars, scriptVars, sessionVars>>
  \/ Len(delivered) < MaxDeliveries /\ OnSandboxReady /\ UNCHANGED <<trackerVars, systemVars, scriptVars, sessionVars>>
  \/ Len(delivered) < MaxDeliveries /\ OnMediaPipeReady /\ UNCHANGED <<trackerVars, systemVars, scriptVars, sessionVars>>
  \/ Len(delivered) < MaxDeliveries /\ OnMediaPipeFailed /\ UNCHANGED <<trackerVars, systemVars, scriptVars, sessionVars>>
  \/ BridgeStart /\ UNCHANGED <<trackerVars, systemVars, scriptVars, sessionVars>>
  \/ Len(sent) < MaxSent /\ StartResumes /\ UNCHANGED <<trackerVars, systemVars, scriptVars, sessionVars>>
  \/ Len(sent) < MaxSent /\ BridgeStop /\ UNCHANGED <<trackerVars, systemVars, scriptVars, sessionVars>>
  \/ Len(sent) < MaxSent /\ SetVideoStream /\ UNCHANGED <<trackerVars, systemVars, scriptVars, sessionVars>>
  \/ Len(sent) < MaxSent /\ TransferFrame /\ UNCHANGED <<trackerVars, systemVars, scriptVars, sessionVars>>
  \/ Len(sent) < MaxSent /\ BridgeDispose /\ UNCHANGED <<trackerVars, systemVars, scriptVars, sessionVars>>

SpecBridge == InitBridgeRuns /\ [][NextBridge]_vars

\* Sessions: one START_TRACKING handled by the trimming content script over
\* the affine tracker and the improved CalibrationSystem, with the camera
\* granted; the sandbox posts its messages while the script waits for the
\* tracker (or after it gave up); one gaze object arrives per capture;
\* STOP_TRACKING may arrive at any time.
InitSession == InitTracker /\ InitSystem /\ InitBridge
               /\ variant = "affine" /\ hasCallback = TRUE /\ viewport = <<120, 60>>
               /\ currentGaze = NoGaze /\ samples = <<>> /\ calibrationData = <<>>
               /\ gazeStream = "frozen" /\ ticks = 0 /\ capturePc = "none"
               /\ validSamples = <<>> /\ InitCursor

SandboxActive == cameraPc \in {"initializing", "failed"} /\ Len(delivered) < MaxDeliveries

NextSession ==
  \/ StartCamera
  \/ SandboxActive /\ OnSandboxReady /\ UNCHANGED <<trackerVars, systemVars, scriptVars, sessionVars>>
  \/ SandboxActive /\ OnMediaPipeReady /\ UNCHANGED <<trackerVars, systemVars, scriptVars, sessionVars>>
  \/ SandboxActive /\ OnMediaPipeFailed /\ UNCHANGED <<trackerVars, systemVars, scriptVars, sessionVars>>
  \/ InitResolves /\ UNCHANGED <<trackerVars, systemVars, scriptVars, sessionVars>>
  \/ ReadyTimeout /\ UNCHANGED <<trackerVars, systemVars, scriptVars, sessionVars>>
  \/ InitializeReturns
  \/ InitializeRejects
  \/ VideoPlaying
  \/ CountdownTick /\ UNCHANGED <<trackerVars, scriptVars, bridgeVars, sessionVars>>
  \/ StartTimeout /\ UNCHANGED <<trackerVars, scriptVars, bridgeVars, sessionVars>>
  \/ OnGazeCapture /\ UNCHANGED <<trackerVars, bridgeVars, sessionVars>>
  \/ SettleTimeout /\ UNCHANGED <<trackerVars, systemVars, bridgeVars, sessionVars>>
  \/ /\ calPc = "capturing"
     /\ capturePc = "polling"
     /\ NextArrival.valid
     /\ currentGaze # NextArrival
     /\ HandleGazeUpdate(NextArrival)
     /\ UNCHANGED <<trackerVars, systemVars, bridgeVars, sessionVars, cursorVars>>
  \/ /\ calPc = "capturing"
     /\ capturePc = "polling"
     /\ NextArrival.valid => currentGaze = NextArrival
     /\ PollTick
     /\ UNCHANGED <<bridgeVars, sessionVars>>
  \/ SuccessTimeout /\ UNCHANGED <<trackerVars, scriptVars, bridgeVars, sessionVars>>
  \/ SessionCompletes
  \/ StopCamera

SpecSession == InitSession /\ [][NextSession]_vars

\* Sessions in which the 60 s timer fires when due and settled promises run
\* their continuations.
InitProgress ==
  \/ InitResolves /\ UNCHANGED <<trackerVars, systemVars, scriptVars, sessionVars>>
  \/ ReadyTimeout /\ UNCHANGED <<trackerVars, systemVars, scriptVars, sessionVars>>
  \/ InitializeReturns
  \/ InitializeRejects

SpecSessionFair == SpecSession /\ WF_vars(InitProgress)

\* ------------------------------------------------------------------------
\* Properties of handleGazeData
\* ------------------------------------------------------------------------

\* The step just taken is a handleGazeData call.
FrameStep == frameCounter' = frameCounter + 1

\* The step just taken is an applyCalibration call.
CalibrationStep == calibrations' = calibrations + 1

\* Fewer than 478 landmarks, or a missing iris point.
Malformed(data) ==
  \/ ~data.hasLandmarks
  \/ data.length < 478
  \/ ~data.hasLeftIris
  \/ ~data.hasRightIris

\* average eye height / average eye width of a well-formed frame
EyeAspectRatio(data) == AspectRatio(EyeDims(data.landmarks))

\* At least 478 landmarks, both iris points, aspect ratio at least 0.15.
ValidNonBlink(data) == ~Malformed(data) /\ Le(Q(15, 100), EyeAspectRatio(data))

\* Well-formed, aspect ratio below 0.15.
BlinkFrame(data) == ~Malformed(data) /\ Lt(EyeAspectRatio(data), Q(15, 100))

\* C1: while the tracker runs with a callback, a frame is answered by
\* exactly one GazePoint when it has at least 478 landmarks, both iris
\* points and an aspect ratio of at least 0.15, and by none otherwise; no
\* other step emits, so the emitted count equals the count of such frames.
C1_OnePerValidFrame ==
  [][/\ (FrameStep /\ isRunning /\ hasCallback)
        => emitted' = emitted + (IF ValidNonBlink(lastOp'.frame) THEN 1 ELSE 0)
     /\ ~FrameStep => emitted' = emitted]_vars

\* C2: a frame with fewer than 478 landmarks or a missing iris point leaves
\* the smoothing history, the eye-height history (and its mean), the
\* calibrated flag and the active transform as they were, and emits nothing.
C2_MalformedFrameDiscarded ==
  [][(FrameStep /\ Malformed(lastOp'.frame))
       => UNCHANGED <<gazeHistory, eyeHeightHistory, stableEyeHeight, isCalibrated,
                      calibrationMatrix, emitted, lastEmit>>]_vars

\* C2 witness: a malformed frame reached a running, calibrated tracker whose
\* histories were already filled.
C2_Witness ==
  /\ lastOp.op = "frame"
  /\ lastOp.running
  /\ Malformed(lastOp.frame)
  /\ Len(gazeHistory) > 0
  /\ Len(eyeHeightHistory) > 0
  /\ calibrations > 0

\* All but the last element of a non-empty sequence.
Front(s) == SubSeq(s, 1, Len(s) - 1)

\* The sequence after is the sequence before with one entry appended and,
\* at most, the oldest one evicted.
Advanced(before, after) ==
  /\ Len(after) > 0
  /\ Front(after) = before \/ (Len(before) > 0 /\ Front(after) = Tail(before))

\* C3: a blink frame (aspect ratio below 0.15) emits nothing and leaves both
\* histories unchanged; a frame that does emit extends exactly the histories
\* it found, so the first GazePoint after a run of blinks is built from the
\* history before the run plus the new frame.
C3_BlinkLeavesHistories ==
  [][/\ (FrameStep /\ BlinkFrame(lastOp'.frame))
        => UNCHANGED <<gazeHistory, eyeHeightHistory, emitted, lastEmit>>
     /\ (FrameStep /\ emitted' # emitted)
        => /\ Advanced(gazeHistory, gazeHistory')
           /\ Advanced(eyeHeightHistory, eyeHeightHistory')]_vars

\* C3 witness: a blink frame reached a running tracker with filled histories.
C3_Witness ==
  /\ lastOp.op = "frame"
  /\ lastOp.running
  /\ BlinkFrame(lastOp.frame)
  /\ Len(gazeHistory) > 0
  /\ emitted > 0

\* C4: every emitted GazePoint lies within the viewport in force when it
\* was emitted.
C4_EmittedWithinViewport ==
  lastEmit.valid =>
    /\ Le(I(0), lastEmit.x) /\ Le(lastEmit.x, I(lastEmit.sw))
    /\ Le(I(0), lastEmit.y) /\ Le(lastEmit.y, I(lastEmit.sh))

\* C5: once 8 consecutive emitting frames pushed the same clamped point P the
\* GazePoint is P on both axes, and from the 4th such frame on its y is P.y.
C5_ConstantInputConverges ==
  /\ sameRun.n >= 8 => (lastEmit.x = sameRun.p.x /\ lastEmit.y = sameRun.p.y)
  /\ sameRun.n >= 4 => lastEmit.y = sameRun.p.y

\* C5 witness: the 8th frame of a run that followed a GazePoint elsewhere.
C5_Witness ==
  /\ sameRun.n = 8
  /\ emitted > 8
  /\ lastEmit.x = sameRun.p.x
  /\ gazeHistory[1] = sameRun.p

\* ------------------------------------------------------------------------
\* Properties of applyCalibration
\* ------------------------------------------------------------------------

\* The default transform for a viewport, written out: a = w / 0.6,
\* d = h / 0.6, tx = w / 2, ty = h / 2, b = c = 0.
DefaultFor(vp) ==
  [a |-> Q(10 * vp[1], 6), b |-> I(0), c |-> I(0), d |-> Q(10 * vp[2], 6),
   tx |-> Q(vp[1], 2), ty |-> Q(vp[2], 2)]

\* The samples of the latest applyCalibration call that pass the filter.
Survivors(op) == FitData(GoodPoints(op.points))

\* Residual of one output row (p, q, t) on one sample.
Residual(p, q, t, srcX, srcY, dst) == Sub(Add(Add(Mul(p, srcX), Mul(q, srcY)), t), dst)

\* One output row satisfies the three normal equations of least squares:
\* the residuals are orthogonal to srcX, to srcY and to the constant.
RowIsLeastSquares(p, q, t, srcX, srcY, dst) ==
  /\ SumSeq([i \in 1..Len(dst) |-> Mul(Residual(p, q, t, srcX[i], srcY[i], dst[i]), srcX[i])]) = I(0)
  /\ SumSeq([i \in 1..Len(dst) |-> Mul(Residual(p, q, t, srcX[i], srcY[i], dst[i]), srcY[i])]) = I(0)
  /\ SumSeq([i \in 1..Len(dst) |-> Residual(p, q, t, srcX[i], srcY[i], dst[i])]) = I(0)

\* m is the least-squares affine fit of the samples, on both rows.
IsLeastSquaresFit(m, data) ==
  /\ RowIsLeastSquares(m.a, m.b, m.tx, [i \in 1..Len(data) |-> data[i].srcX],
                       [i \in 1..Len(data) |-> data[i].srcY], [i \in 1..Len(data) |-> data[i].dstX])
  /\ RowIsLeastSquares(m.c, m.d, m.ty, [i \in 1..Len(data) |-> data[i].srcX],
                       [i \in 1..Len(data) |-> data[i].srcY], [i \in 1..Len(data) |-> data[i].dstY])

\* (q - p) x (r - p) = 0
CollinearTriple(p, q, r) ==
  Sub(Mul(Sub(q.srcX, p.srcX), Sub(r.srcY, p.srcY)),
      Mul(Sub(q.srcY, p.srcY), Sub(r.srcX, p.srcX))) = I(0)

\* All measured normalized points lie on one line (or coincide): the
\* determinant of the normal equations is zero.
Degenerate(data) ==
  \A j \in 1..Len(data) : \A k \in 1..Len(data) :
    CollinearTriple(data[1], data[j], data[k])

AffineCall == CalibrationStep /\ variant = "affine" /\ Len(lastOp'.points) > 0

\* C6: after applyCalibration with a non-empty list the affine tracker is
\* calibrated and its matrix is, as a whole, either the default transform
\* of the current viewport or the least-squares fit of the surviving samples.
C6_FitOrDefault ==
  [][AffineCall =>
       /\ isCalibrated'
       /\ \/ calibrationMatrix' = DefaultFor(viewport')
          \/ IsLeastSquaresFit(calibrationMatrix', Survivors(lastOp'))]_vars

\* C6 witness: a fit with a residual is in force, replacing an earlier transform.
C6_Witness ==
  /\ variant = "affine"
  /\ lastOp.op = "calibrate"
  /\ lastOp.points = LResidual
  /\ calibrations = 2
  /\ isCalibrated
  /\ calibrationMatrix # DefaultFor(viewport)
  /\ calibrationMatrix # AffineCalibration(LFour, I(viewport[1]), I(viewport[2]))

\* C7: applyCalibration with an empty list leaves the transform and the
\* calibrated flag as they were.
C7_EmptyIsNoOp ==
  [][(CalibrationStep /\ Len(lastOp'.points) = 0)
       => UNCHANGED <<calibrationMatrix, isCalibrated>>]_vars

\* C7 witness: an empty list arrived at a tracker holding a fitted transform.
C7_Witness ==
  /\ lastOp.op = "calibrate"
  /\ lastOp.points = <<>>
  /\ calibrations = 2
  /\ calibrationMatrix \notin {IdentityAffine, IdentityLinear}

\* C8: with fewer than 4 surviving samples of a non-empty list the affine
\* fitter installs the default transform of the current viewport and marks
\* the tracker calibrated, whatever transform was active.
C8_TooFewSamplesGiveDefault ==
  [][(AffineCall /\ Len(Survivors(lastOp')) < 4)
       => /\ calibrationMatrix' = DefaultFor(viewport')
          /\ isCalibrated']_vars

\* C8 witness: five samples of which three survive, after an earlier calibration.
C8_Witness ==
  /\ variant = "affine"
  /\ lastOp.op = "calibrate"
  /\ lastOp.points = LFiltered
  /\ calibrations = 2
  /\ calibrationMatrix = DefaultFor(viewport)
  /\ isCalibrated

\* C9: four or more surviving samples whose measured normalized points are
\* all identical, all collinear or all absent make the affine fitter install
\* the default transform of the current viewport.
C9_DegenerateSamplesGiveDefault ==
  [][(AffineCall /\ Len(Survivors(lastOp')) >= 4 /\ Degenerate(Survivors(lastOp')))
       => /\ calibrationMatrix' = DefaultFor(viewport')
          /\ isCalibrated']_vars

\* C9 witness: four collinear samples, after an earlier calibration.
C9_Witness ==
  /\ variant = "affine"
  /\ lastOp.op = "calibrate"
  /\ lastOp.points = LCollinear
  /\ calibrations = 2
  /\ calibrationMatrix = DefaultFor(viewport)

\* lo <= v <= hi for v >= 0 given by its square
WithinSq(vSq, lo, hi) == Le(Mul(lo, lo), vSq) /\ Le(vSq, Mul(hi, hi))

\* sqrt(a^2 + c^2) and |d| both lie in [0.2 * E, 3 * E], E = screenWidth / 0.6
ScalesInRange(m, vp) ==
  /\ WithinSq(Add(Mul(m.a, m.a), Mul(m.c, m.c)), Q(2 * vp[1], 6), Q(30 * vp[1], 6))
  /\ WithinSq(Mul(m.d, m.d), Q(2 * vp[1], 6), Q(30 * vp[1], 6))

\* The least-squares solution of the latest call's surviving samples.
SolvedFit(op) == CramerSolve(FitSums(Survivors(op)), DetA(FitSums(Survivors(op))))

\* C10: a solvable fit is installed exactly when both of its scales lie in
\* [0.2 * E, 3 * E]; otherwise the default transform is installed.
C10_ScaleGate ==
  [][(AffineCall /\ Len(Survivors(lastOp')) >= 4 /\ ~Degenerate(Survivors(lastOp')))
       => /\ IsLeastSquaresFit(SolvedFit(lastOp'), Survivors(lastOp'))
          /\ calibrationMatrix' = (IF ScalesInRange(SolvedFit(lastOp'), viewport')
                                   THEN SolvedFit(lastOp')
                                   ELSE DefaultFor(viewport'))]_vars

\* C10 witness: a fit whose Y scale alone is out of range was replaced by the default.
C10_Witness ==
  /\ variant = "affine"
  /\ lastOp.op = "calibrate"
  /\ lastOp.points = LSmallY
  /\ calibrations = 2
  /\ calibrationMatrix = DefaultFor(viewport)
  /\ ~ScalesInRange(SolvedFit(lastOp), viewport)

\* ------------------------------------------------------------------------
\* The outlier filter
\* ------------------------------------------------------------------------

\* A sample whose recorded standard deviation exceeds the threshold.
ExceedsThreshold(p) == p.hasStdDev /\ Gt(p.stdDev, I(MAX_STDDEV))

\* The list with the samples above the threshold removed, order kept.
RECURSIVE WithoutOutliers(_)
WithoutOutliers(points) ==
  IF Len(points) = 0 THEN <<>>
  ELSE IF ExceedsThreshold(Head(points)) THEN WithoutOutliers(Tail(points))
  ELSE <<Head(points)>> \o WithoutOutliers(Tail(points))

\* C11: the affine fitter drops exactly the samples whose standard deviation
\* exceeds 50 (a sample at 50 or below, or without one, is kept) and fits
\* the rest: the transform in force after the call is the one the fit
\* produces from the list without those samples.
C11_DropsExactlyAboveThreshold ==
  [][AffineCall =>
       calibrationMatrix' = AffineCalibration(WithoutOutliers(lastOp'.points),
                                              I(viewport'[1]), I(viewport'[2]))]_vars

\* ------------------------------------------------------------------------
\* Exact recovery
\* ------------------------------------------------------------------------

\* The transform m maps the measured vector of every sample to its target.
MapsBack(m, points) ==
  \A i \in 1..Len(points) :
    /\ MapX(m, points[i].measured.normalizedX, points[i].measured.normalizedY) = points[i].actual.x
    /\ MapY(m, points[i].measured.normalizedX, points[i].measured.normalizedY) = points[i].actual.y

\* C12: for any viewport, applyCalibration with the nine grid samples whose
\* measured normalized gaze is the unit-normalized target installs a
\* transform that maps every sample's measured vector back to its target.
C12_IdentityGrid ==
  [][(AffineCall /\ lastOp'.points = IdentitySamples(viewport'))
       => MapsBack(calibrationMatrix', lastOp'.points)]_vars

\* The identity-equivalent map of a viewport: x = (nx + 1) * w / 2, y = (ny + 1) * h / 2.
IdentityMap(vp) == Aff(Q(vp[1], 2), I(0), I(0), Q(vp[2], 2), Q(vp[1], 2), Q(vp[2], 2))

\* The affine maps the sample lists are generated from.
GeneratingMaps ==
  {TGood, TSmallX, TBigX, TSmallY, TEdge} \cup {IdentityMap(vp) : vp \in CalibViewports}

\* Every datum is generated exactly by T: dst = T(src).
GeneratedBy(T, data) ==
  \A i \in 1..Len(data) :
    /\ MapX(T, data[i].srcX, data[i].srcY) = data[i].dstX
    /\ MapY(T, data[i].srcX, data[i].srcY) = data[i].dstY

\* The reprojection error of every datum under m is zero.
ZeroReprojection(m, data) ==
  \A i \in 1..Len(data) :
    /\ Residual(m.a, m.b, m.tx, data[i].srcX, data[i].srcY, data[i].dstX) = I(0)
    /\ Residual(m.c, m.d, m.ty, data[i].srcX, data[i].srcY, data[i].dstY) = I(0)

\* C13: when at least 4 surviving samples with non-collinear measured points
\* are generated exactly by an affine map T whose scales pass the sanity
\* gate, the affine fitter installs T and every sample reprojects exactly.
C13_ExactAffineRecovered ==
  [][AffineCall =>
       \A T \in GeneratingMaps :
         (/\ Len(Survivors(lastOp')) >= 4
          /\ ScalesInRange(T, viewport')
          /\ GeneratedBy(T, Survivors(lastOp'))
          /\ ~Degenerate(Survivors(lastOp')))
           => /\ calibrationMatrix' = T
              /\ ZeroReprojection(calibrationMatrix', Survivors(lastOp'))]_vars

\* C13 witness: a coupled map (b, c non-zero) was recovered from four exact
\* samples after the far-off fifth was filtered, replacing an earlier transform.
C13_Witness ==
  /\ variant = "affine"
  /\ lastOp.op = "calibrate"
  /\ lastOp.points = LOutlier
  /\ calibrations = 2
  /\ calibrationMatrix = TGood
  /\ GeneratedBy(TGood, Survivors(lastOp))
  /\ ScalesInRange(TGood, viewport)

\* ------------------------------------------------------------------------
\* Properties of CalibrationSystem
\* ------------------------------------------------------------------------

\* The step just taken called generateCalibrationGrid: the simple system at
\* runCalibration, the improved one when the preparation countdown ends.
GridCall ==
  \/ runs' = runs + 1 /\ calPc' = "dwell"
  \/ calPc = "preparing" /\ calPc' = "starting"

\* The percentages of the grid along one axis.
GridPercent == <<15, 50, 85>>

\* C14: generateCalibrationGrid returns exactly 9 points, the products of
\* 0.15, 0.5, 0.85 of the current viewport width and height in row-major
\* order (top row first, left to right), a function of the viewport alone,
\* each strictly inside the viewport.
C14_GridIsRowMajorProduct ==
  [][GridCall =>
       /\ Len(targetPoints') = 9
       /\ \A row \in 1..3 : \A col \in 1..3 :
            /\ targetPoints'[3 * (row - 1) + col].x = Q(GridPercent[col] * viewport'[1], 100)
            /\ targetPoints'[3 * (row - 1) + col].y = Q(GridPercent[row] * viewport'[2], 100)
       /\ \A i \in 1..9 :
            /\ Lt(I(0), targetPoints'[i].x) /\ Lt(targetPoints'[i].x, I(viewport'[1]))
            /\ Lt(I(0), targetPoints'[i].y) /\ Lt(targetPoints'[i].y, I(viewport'[2]))]_vars

\* C14 witness: the second run under an unchanged 120x60 viewport took the
\* grid (18, 9), (60, 9), (102, 9), (18, 30), ... again.
C14_Witness ==
  /\ runs = 2
  /\ calPc = "dwell"
  /\ currentIndex = 0
  /\ viewport = <<120, 60>>
  /\ targetPoints[1] = Pt(I(18), I(9))
  /\ targetPoints[2] = Pt(I(60), I(9))
  /\ targetPoints[4] = Pt(I(18), I(30))
  /\ targetPoints[9] = Pt(I(102), I(51))

\* A calibration run is under way or has just resolved.
InCalibrationRun ==
  calPc \in {"preparing", "starting", "dwell", "capturing", "success", "completing", "resolved"}

\* The captures so far went to the first targets of the run, in their
\* order, one call each, and every call but the latest has resolved.
CapturesInOrder ==
  /\ Len(captureLog) <= Len(targetPoints)
  /\ \A i \in 1..Len(captureLog) : captureLog[i].target = targetPoints[i]
  /\ \A i \in 1..(Len(captureLog) - 1) : captureLog[i].resolved

\* C15: runCalibration calls the capture routine once per grid point, in
\* grid order and one at a time, and resolves its own promise exactly once,
\* only after the ninth capture has resolved; with timers firing and
\* captures settling, a started run resolves unless a capture rejects.
C15_SequentialCaptures ==
  /\ [](InCalibrationRun =>
          /\ CapturesInOrder
          /\ resolutions <= 1
          /\ (resolutions = 1) = (calPc = "resolved")
          /\ calPc \in {"completing", "resolved"} =>
               /\ Len(targetPoints) = 9
               /\ Len(captureLog) = 9
               /\ captureLog[9].resolved)
  /\ (calPc = "dwell") ~> (calPc \in {"resolved", "abandoned"})

\* C15 witness: the improved system is collecting the fifth point of its
\* second run, the four before it done.
C15_Witness ==
  /\ runs = 2
  /\ variant = "affine"
  /\ calPc = "capturing"
  /\ Len(captureLog) = 5
  /\ captureLog[4].resolved
  /\ ~captureLog[5].resolved
  /\ captureLog[5].target = targetPoints[5]

\* d is the Euclidean distance between the points p and q.
IsDistance(d, p, q) ==
  /\ Le(I(0), d)
  /\ Mul(d, d) = Add(Mul(Sub(p.x, q.x), Sub(p.x, q.x)), Mul(Sub(p.y, q.y), Sub(p.y, q.y)))

\* Every capture returned its target displaced by the same vector.
FixedOffset(log) ==
  \A i \in 1..Len(log) :
    /\ Sub(log[i].result.x, log[i].target.x) = Sub(log[1].result.x, log[1].target.x)
    /\ Sub(log[i].result.y, log[i].target.y) = Sub(log[1].result.y, log[1].target.y)

\* C19: runValidation resolves once, with avgError the arithmetic mean of
\* the Euclidean distances between its 5 targets and the points the capture
\* routine returned for them and with success = (avgError < 100); when every
\* returned point is its target plus one fixed vector, avgError is the
\* magnitude of that vector.  Until then the promise is pending.
C19_ValidationMeanError ==
  /\ calPc \in {"vstarting", "vdwell", "vcapturing", "vpause", "vresult"} =>
       /\ resolutions = 0
       /\ ~validation.resolved
  /\ calPc = "vresolved" =>
       /\ resolutions = 1
       /\ validation.resolved
       /\ Len(captureLog) = 5
       /\ Len(errors) = 5
       /\ \A i \in 1..5 :
            /\ captureLog[i].target = targetPoints[i]
            /\ captureLog[i].resolved
            /\ IsDistance(errors[i], captureLog[i].target, captureLog[i].result)
       /\ Mul(validation.avgError, I(5)) = SumSeq(errors)
       /\ validation.success = Lt(validation.avgError, I(100))
       /\ FixedOffset(captureLog) =>
            IsDistance(validation.avgError, captureLog[1].target, captureLog[1].result)

\* C19 witness: every point came back displaced by (-60, 80); the mean error
\* is exactly 100 and the verdict is a fail.
C19_Witness ==
  /\ calPc = "vresolved"
  /\ FixedOffset(captureLog)
  /\ captureLog[1].result = Pt(Sub(captureLog[1].target.x, I(60)), Add(captureLog[1].target.y, I(80)))
  /\ validation.avgError = I(100)
  /\ ~validation.success

\* The step just taken is a runValidation call.
ValidationCall == runs' = runs + 1 /\ calPc' = "vstarting"

\* C20: for every viewport size no validation target presented by
\* runValidation coincides with a point of generateCalibrationGrid.
C20_ValidationDisjointFromGrid ==
  [][ValidationCall =>
       \A i \in 1..Len(targetPoints') : \A j \in 1..9 :
         targetPoints'[i] # GenerateCalibrationGrid(viewport')[j]]_vars

\* ------------------------------------------------------------------------
\* Properties of the content script's runCalibration
\* ------------------------------------------------------------------------

\* The step just taken called tracker.applyCalibration.
ApplyCall == calibrations' # calibrations

\* The samples are one per target, in the targets' order.
OnePerTarget(points, targets) ==
  /\ Len(points) = Len(targets)
  /\ \A i \in 1..Len(targets) : points[i].actual = targets[i]

\* C16: the content script calls tracker.applyCalibration once per
\* calibration run, in the step that ends the run, after all nine targets
\* of the run's grid were captured, and hands it exactly nine samples, one
\* per grid target in grid order; never a partial set.
C16_AppliesFullSetOnce ==
  /\ [][ApplyCall =>
          /\ calibrations' = calibrations + 1
          /\ calPc # "resolved" /\ calPc' = "resolved"
          /\ Len(targetPoints') = 9
          /\ Len(captureLog') = 9
          /\ \A i \in 1..9 : captureLog'[i].resolved /\ captureLog'[i].target = targetPoints'[i]
          /\ lastOp'.op = "calibrate"
          /\ OnePerTarget(lastOp'.points, targetPoints')]_vars
  /\ [](calibrations = (IF calPc \in {"idle", "resolved"} THEN runs ELSE runs - 1))

\* C16 witness: the second run has ended and its nine samples were applied;
\* the window was resized during the run, so the targets are not the
\* current viewport's grid.
C16_Witness ==
  /\ calPc = "resolved"
  /\ runs = 2
  /\ calibrations = 2
  /\ lastOp.op = "calibrate"
  /\ OnePerTarget(lastOp.points, targetPoints)
  /\ Len(lastOp.points) = 9
  /\ targetPoints # GenerateCalibrationGrid(viewport)

\* The index of the first poll of the object g among the samples.
FirstPoll(arr, g) == CHOOSE i \in 1..Len(arr) : arr[i] = g /\ \A j \in 1..(i - 1) : arr[j] # g

\* The rank of the sample g by a coordinate: the number of samples that
\* precede it in ascending order, samples of equal value in polling order.
RankBy(arr, g, axis) ==
  Cardinality({j \in 1..Len(arr) :
                 \/ Lt(arr[j][axis], g[axis])
                 \/ arr[j][axis] = g[axis] /\ j < FirstPoll(arr, g)})

\* floor(0.1 * n)
TenthOf(n) == CHOOSE k \in 0..n : 10 * k <= n /\ n < 10 * (k + 1)

InBand(rank, n) == TenthOf(n) <= rank /\ rank < n - TenthOf(n)

\* The samples whose ranks by x and by y are both inside the band.
WithinBothBands(arr) ==
  SelectSeq(arr, LAMBDA g : InBand(RankBy(arr, g, "x"), Len(arr)) /\ InBand(RankBy(arr, g, "y"), Len(arr)))

\* The trimming script has just completed a capture.
TrimmedCapture == variant = "affine" /\ calPc = "success" /\ capturePc = "none"

\* v is the mean of the values.
IsMeanOf(v, vals) == Len(vals) > 0 /\ Mul(v, I(Len(vals))) = SumRange(vals, 1, Len(vals))

FewAbove(arr, v) == Cardinality({j \in 1..Len(arr) : Lt(v, arr[j].x)}) <= 3

FewBelow(arr, v) == Cardinality({j \in 1..Len(arr) : Lt(arr[j].x, v)}) <= 3

\* C18: when at most 3 of the 50 polled samples (an object may be polled
\* more than once) are extreme on X, all larger or all smaller than every
\* other sample's x, the measured x of the capture lies between the least
\* and the greatest x of the other samples.
C18_OutliersDoNotSkew ==
  TrimmedCapture =>
    \A i \in 1..Len(samples) :
      /\ FewAbove(samples, samples[i].x) =>
           Le(calibrationData[Len(calibrationData)].measured.x, samples[i].x)
      /\ FewBelow(samples, samples[i].x) =>
           Le(samples[i].x, calibrationData[Len(calibrationData)].measured.x)

\* ------------------------------------------------------------------------
\* Properties of stop()
\* ------------------------------------------------------------------------

\* C22: a landmark frame delivered while the tracker is not running (after
\* stop() and before the next start()) produces no GazePoint and leaves the
\* smoothing history, the eye-height history and its mean, the calibrated
\* flag and the active transform as they were.
C22_StoppedTrackerIgnoresFrames ==
  [][(FrameStep /\ ~isRunning)
       => UNCHANGED <<gazeHistory, eyeHeightHistory, stableEyeHeight, isCalibrated,
                      calibrationMatrix, emitted, lastEmit>>]_vars

\* C22 witness: a tracker that had emitted was stopped, and a frame that it
\* would have answered (well-formed, eyes open) arrived afterwards.
C22_Witness ==
  /\ lastOp.op = "frame"
  /\ ~lastOp.running
  /\ ~isRunning
  /\ ValidNonBlink(lastOp.frame)
  /\ hasCallback
  /\ emitted > 0
  /\ Len(gazeHistory) > 0

\* ------------------------------------------------------------------------
\* Properties of the default transform
\* ------------------------------------------------------------------------

\* The latest applyCalibration call took one of the paths that end in
\* useDefaultCalibration: too few samples, a degenerate system, or a fit
\* rejected by the scale check.
FellBackToDefault(op, vp) ==
  \/ Len(Survivors(op)) < 4
  \/ Degenerate(Survivors(op))
  \/ ~ScalesInRange(SolvedFit(op), vp)

\* The screen point the calibrated affine tracker gives to (nx, ny) under m.
MapsTo(m, vp, nx, ny) == ScreenAffine(Pt(nx, ny), TRUE, m, I(vp[1]), I(vp[2]))

\* m has no cross terms, sends (0, 0) to the centre of vp and -0.3 / +0.3 on
\* each axis to the opposite edges of vp.  These conditions leave one matrix
\* for each viewport.
FillsScreen(m, vp) ==
  /\ m.b = I(0)
  /\ m.c = I(0)
  /\ MapsTo(m, vp, I(0), I(0)) = Pt(Q(vp[1], 2), Q(vp[2], 2))
  /\ MapsTo(m, vp, Q(-3, 10), Q(-3, 10)) = Pt(I(0), I(0))
  /\ MapsTo(m, vp, Q(3, 10), Q(3, 10)) = Pt(I(vp[1]), I(vp[2]))
  /\ MapsTo(m, vp, Q(-3, 10), Q(3, 10)) = Pt(I(0), I(vp[2]))

\* sqrt(a^2 + c^2) lies in [MIN_SCALE, MAX_SCALE] of the viewport.
PassesXGate(m, vp) ==
  ~OutOfRangeSq(Add(Mul(m.a, m.a), Mul(m.c, m.c)),
                MinScale(ExpectedScale(I(vp[1]))), MaxScale(ExpectedScale(I(vp[1]))))

\* C27: whenever applyCalibration ends in useDefaultCalibration, the matrix
\* installed has b = c = 0, sends the normalized vector (0, 0) to the centre
\* of the current viewport and -0.3 and +0.3 on each axis to the opposite
\* screen edges (so it is a function of the viewport alone), and its X scale
\* passes the fitter's scale check.
C27_DefaultFillsScreen ==
  [][(AffineCall /\ FellBackToDefault(lastOp', viewport'))
       => /\ FillsScreen(calibrationMatrix', viewport')
          /\ PassesXGate(calibrationMatrix', viewport')]_vars

\* C27 witness: the default was installed for a collinear sample set on the
\* 90 x 60 viewport, replacing an earlier transform.
C27_Witness ==
  /\ variant = "affine"
  /\ lastOp.op = "calibrate"
  /\ lastOp.points = LCollinear
  /\ calibrations = 2
  /\ viewport = <<90, 60>>
  /\ calibrationMatrix.a = I(150)
  /\ calibrationMatrix.ty = I(30)

\* ------------------------------------------------------------------------
\* Properties of the histories
\* ------------------------------------------------------------------------

\* The x (axis = "x") or y values of the k latest arrivals, oldest first.
LatestOf(axis, k) ==
  [i \in 1..k |-> IF axis = "x" THEN arrivals[Len(arrivals) - k + i].gaze.x
                                ELSE arrivals[Len(arrivals) - k + i].gaze.y]

AtMost(n, k) == IF n < k THEN n ELSE k

\* C28: the latest GazePoint has for x the mean of the x values of the
\* min(n, 8) latest points pushed and for y the mean of the y values of the
\* min(n, 4) latest points pushed, n being the number of frames that passed
\* the blink gate so far; after the first such frame it is that frame's own
\* clamped point.
C28_WindowedMeans ==
  (hasCallback /\ Len(arrivals) > 0) =>
    /\ lastEmit.valid
    /\ lastEmit.x = Mean(LatestOf("x", AtMost(Len(arrivals), 8)))
    /\ lastEmit.y = Mean(LatestOf("y", AtMost(Len(arrivals), 4)))
    /\ Len(arrivals) = 1 =>
         (lastEmit.x = arrivals[1].gaze.x /\ lastEmit.y = arrivals[1].gaze.y)

\* C28 witness: ten frames were pushed, the two oldest (since evicted) at
\* another point than the latest, and the GazePoint is neither.
C28_Witness ==
  /\ Len(arrivals) = 10
  /\ arrivals[1].gaze # arrivals[10].gaze
  /\ arrivals[2].gaze = arrivals[1].gaze
  /\ arrivals[6].gaze # arrivals[7].gaze
  /\ lastEmit.x # arrivals[10].gaze.x
  /\ lastEmit.x # arrivals[1].gaze.x
  /\ lastEmit.y # arrivals[10].gaze.y

\* The k latest arrivals' points (field = "gaze") or eye heights, oldest first.
LatestArrivals(field, k) ==
  [i \in 1..k |-> IF field = "gaze" THEN arrivals[Len(arrivals) - k + i].gaze
                                    ELSE arrivals[Len(arrivals) - k + i].eyeHeight]

\* hist with e appended, without its oldest entry when it already held bound entries.
AppendedEvicting(hist, e, bound) ==
  IF Len(hist) < bound THEN Append(hist, e) ELSE Append(Tail(hist), e)

\* C29: the smoothing history is always the (at most 8) latest points pushed
\* and the eye-height history the (at most 15) latest eye heights, in arrival
\* order; a well-formed open-eye frame reaching a running tracker appends one
\* entry to each and evicts the oldest entry of a history that was full.
C29_HistoriesAreLatestEntries ==
  /\ [](/\ Len(gazeHistory) <= 8
        /\ Len(eyeHeightHistory) <= 15
        /\ gazeHistory = LatestArrivals("gaze", AtMost(Len(arrivals), 8))
        /\ eyeHeightHistory = LatestArrivals("eyeHeight", AtMost(Len(arrivals), 15)))
  /\ [][(FrameStep /\ isRunning /\ ValidNonBlink(lastOp'.frame))
          => /\ Len(arrivals') = Len(arrivals) + 1
             /\ gazeHistory' = AppendedEvicting(gazeHistory, arrivals'[Len(arrivals')].gaze, 8)
             /\ eyeHeightHistory' =
                  AppendedEvicting(eyeHeightHistory, arrivals'[Len(arrivals')].eyeHeight, 15)]_vars

\* C29 witness: seventeen frames were pushed; the two oldest eye heights, one
\* unlike the oldest kept, have been evicted.
C29_Witness ==
  /\ Len(arrivals) = 17
  /\ Len(eyeHeightHistory) = 15
  /\ Len(gazeHistory) = 8
  /\ arrivals[1].eyeHeight # arrivals[3].eyeHeight
  /\ eyeHeightHistory[1] = arrivals[3].eyeHeight
  /\ gazeHistory[1] = arrivals[10].gaze
  /\ gazeHistory[1] # gazeHistory[2]

\* ------------------------------------------------------------------------
\* Properties of the raw normalized vector
\* ------------------------------------------------------------------------

\* Arrivals i and j emitted a GazePoint for the same landmark frame.
SameFrameEmitted(i, j) ==
  /\ arrivals[i].emitted
  /\ arrivals[j].emitted
  /\ arrivals[i].frame = arrivals[j].frame

\* C30: any two GazePoints emitted for the same landmark frame carry the same
\* normalizedX and normalizedY, whatever transform, calibrated flag, smoothing
\* history and viewport were in force at each emission.
C30_NormalizedDependsOnFrameOnly ==
  \A i, j \in 1..Len(arrivals) :
    SameFrameEmitted(i, j) =>
      /\ arrivals[i].normalizedX = arrivals[j].normalizedX
      /\ arrivals[i].normalizedY = arrivals[j].normalizedY

\* C30 witness: the frame just answered, under a fitted transform, was
\* answered before at a different screen point (so under another transform
\* or viewport), and the smoothing history moved the published point away
\* from the frame's own.
C30_Witness ==
  \E i \in 1..(Len(arrivals) - 1) :
    /\ SameFrameEmitted(i, Len(arrivals))
    /\ arrivals[i].gaze # arrivals[Len(arrivals)].gaze
    /\ lastOp.frame = arrivals[Len(arrivals)].frame
    /\ isCalibrated
    /\ lastEmit.x # arrivals[Len(arrivals)].gaze.x

\* ------------------------------------------------------------------------
\* Properties of SandboxBridge
\* ------------------------------------------------------------------------

ControlMessages == {"START_TRACKING", "STOP_TRACKING"}

\* How many entries of the sequence log carry the id of message m.
CopiesIn(log, m) == Cardinality({i \in 1..Len(log) : log[i].id = m.id /\ log[i].type = m.type})

\* C23: a message posted while isMediaPipeReady was still false is an
\* INIT_MEDIAPIPE, a VIDEO_READY or a VIDEO_FRAME; until MediaPipe is ready
\* every START_TRACKING and STOP_TRACKING handed to sendMessage sits in the
\* queue, and at any time every message sent is in the queue or in the post
\* log, once.
C23_OnlyInitMessagesBeforeReady ==
  /\ \A i \in 1..Len(posted) : ~posted[i].ready => posted[i].type \in InitMessages
  /\ \A k \in 1..Len(sent) :
       /\ CopiesIn(messageQueue, sent[k]) + CopiesIn(posted, sent[k]) = 1
       /\ (~isMediaPipeReady /\ sent[k].type \in ControlMessages)
            => CopiesIn(messageQueue, sent[k]) = 1

\* C23 witness: before any success (a failure was reported), with the iframe
\* up, INIT_MEDIAPIPE and VIDEO_READY have been posted and two STOP_TRACKING
\* are queued.
C23_Witness ==
  /\ iframe
  /\ ~isMediaPipeReady
  /\ reported > 0
  /\ Len(posted) = 2
  /\ {posted[1].type, posted[2].type} = {"INIT_MEDIAPIPE", "VIDEO_READY"}
  /\ Len(messageQueue) = 2
  /\ messageQueue[1].type = "STOP_TRACKING"
  /\ messageQueue[2].type = "STOP_TRACKING"

\* The step just taken handled a MEDIAPIPE_READY with success.
ReadyStep ==
  /\ Len(delivered') = Len(delivered) + 1
  /\ delivered'[Len(delivered')] = "MEDIAPIPE_READY"

\* The queued messages as the post log records them once MediaPipe is ready.
PostedReady(queue) ==
  [i \in 1..Len(queue) |-> [type |-> queue[i].type, id |-> queue[i].id, ready |-> TRUE]]

\* C24: handling a successful MEDIAPIPE_READY appends the queued messages to
\* the post log, each once and in queue order, and leaves the queue empty (so
\* the flush loop has ended); no message is ever posted twice.
C24_FlushPostsQueueInOrder ==
  /\ [](\A i, j \in 1..Len(posted) : posted[i].id = posted[j].id => i = j)
  /\ [][ReadyStep => (posted' = posted \o PostedReady(messageQueue) /\ messageQueue' = <<>>)]_vars

\* C24 witness: a VIDEO_READY queued before the iframe existed and a
\* STOP_TRACKING queued after it were posted, in that order, by the flush that
\* followed INIT_MEDIAPIPE.
C24_Witness ==
  /\ Len(delivered) > 0
  /\ delivered[Len(delivered)] = "MEDIAPIPE_READY"
  /\ messageQueue = <<>>
  /\ Len(posted) = 3
  /\ posted[1] = [type |-> "INIT_MEDIAPIPE", id |-> 3, ready |-> FALSE]
  /\ posted[2] = [type |-> "VIDEO_READY", id |-> 1, ready |-> TRUE]
  /\ posted[3] = [type |-> "STOP_TRACKING", id |-> 2, ready |-> TRUE]

\* ------------------------------------------------------------------------
\* Properties of the session
\* ------------------------------------------------------------------------

\* C25: as long as the sandbox has not reported success the script has run no
\* calibration and is not active; a startCamera() that failed did so because
\* the bridge's initialize() rejected, and leaves no calibration run and an
\* inactive session; and with the 60 s timer firing and continuations
\* running, a startCamera() awaiting the tracker fails unless the sandbox
\* reports success.
C25_InitFailurePropagates ==
  /\ [](~isMediaPipeReady =>
          /\ cameraPc \in {"idle", "initializing", "failed"}
          /\ ~isActive /\ runs = 0 /\ calibrations = 0)
  /\ [](cameraPc = "failed" =>
          /\ initPromise = "rejected"
          /\ ~isActive /\ runs = 0 /\ calibrations = 0 /\ ~isRunning)
  /\ (cameraPc = "initializing") ~> (isMediaPipeReady \/ cameraPc = "failed")

\* C25 witness: the sandbox answered INIT_MEDIAPIPE with a failure, never
\* with success, and startCamera() has rejected.
C25_Witness ==
  /\ cameraPc = "failed"
  /\ reported > 0
  /\ ~isMediaPipeReady
  /\ Len(posted) > 0
  /\ posted[1].type = "INIT_MEDIAPIPE"
  /\ delivered[Len(delivered)] = "MEDIAPIPE_FAILED"

\* C21: once a STOP_TRACKING has been handled during the calibration run, no
\* step appends to the sample buffer, starts a capture, calls
\* applyCalibration or sets isActive.
C21_StopAbandonsCalibration ==
  [][stoppedMidRun =>
       /\ Len(samples') <= Len(samples)
       /\ Len(captureLog') <= Len(captureLog)
       /\ calibrations' = calibrations
       /\ ~isActive']_vars

\* ---------------------------------------------------------------------
\* Properties of the head check
\* ---------------------------------------------------------------------

\* The head has moved more than MAX_HEAD_MOVEMENT since the point was shown.
MovedSinceShown ==
  /\ currentHeadPose.present
  /\ initialHeadPose.present
  /\ HeadMoved(currentHeadPose, initialHeadPose)

\* C26: while the capture of a calibration target is in flight (from the
\* call of onGazeCapture until it resolves) the head check is armed, and
\* every tick of it shows the keep-head-still text exactly when the head has
\* moved more than 0.08 from the pose recorded when the target was shown.
C26_HeadComparedWhileCollecting ==
  /\ [](calPc = "capturing" => headCheckInterval)
  /\ [][HeadCheck => (headIndicator' = "warn") = MovedSinceShown]_vars

\* The head check during the dwell: a tick that finds the head moved warns.
C26_DwellWarns ==
  /\ calPc = "dwell"
  /\ MovedSinceShown
  /\ headIndicator = "warn"

\* The capture is in flight, the head has moved and the indicator still
\* reads "Head position OK".
C26_MovedUnnoticed ==
  /\ calPc = "capturing"
  /\ MovedSinceShown
  /\ headIndicator = "ok"
  /\ ~headCheckInterval

\* ------------------------------------------------------------------------
\* Frame of applyCalibration
\* ------------------------------------------------------------------------

\* C35: a call of applyCalibration (with no sample, with too few samples,
\* with a solvable set) leaves every tracker field but the calibration
\* matrix and the calibrated flag as it was; the smoothing history still
\* holds the latest points as they were computed on arrival.
C35_CalibrationKeepsHistories ==
  /\ [][CalibrationStep =>
         /\ gazeHistory' = gazeHistory
         /\ eyeHeightHistory' = eyeHeightHistory
         /\ stableEyeHeight' = stableEyeHeight
         /\ <<isRunning, bridgeReady, frameCounter, emitted, lastEmit, viewport>>' =
              <<isRunning, bridgeReady, frameCounter, emitted, lastEmit, viewport>>
         /\ gazeHistory' = LatestArrivals("gaze", AtMost(Len(arrivals'), 8))
         /\ Len(lastOp'.points) = 0 =>
              <<calibrationMatrix, isCalibrated>>' = <<calibrationMatrix, isCalibrated>>]_vars

\* C35 witness: the second calibration, a fit of four samples after one that
\* installed another transform, has just been applied to a tracker holding
\* two points computed under neither.
C35_Witness ==
  /\ lastOp.op = "calibrate"
  /\ Len(lastOp.points) = 4
  /\ calibrations = 2
  /\ Len(gazeHistory) = 2
  /\ gazeHistory[1] # gazeHistory[2]
  /\ calibrationMatrix \notin {IdentityAffine, IdentityLinear}
  /\ gazeHistory[2] # ClampToScreen(ToScreen(variant, Normalized(variant, arrivals[2].frame, EyeDims(arrivals[2].frame.landmarks)),
                                             isCalibrated, calibrationMatrix,
                                             I(viewport[1]), I(viewport[2])),
                                    I(viewport[1]), I(viewport[2]))

\* ------------------------------------------------------------------------
\* Well-definedness of the stored points
\* ------------------------------------------------------------------------

\* p is a finite coordinate pair inside some viewport of the run.
WellDefinedPoint(p) ==
  /\ IsFinite(p.x)
  /\ IsFinite(p.y)
  /\ \E vp \in Viewports :
       /\ Le(I(0), p.x) /\ Le(p.x, I(vp[1]))
       /\ Le(I(0), p.y) /\ Le(p.y, I(vp[2]))

\* C38: every point in the smoothing history is a finite pair inside the
\* viewport, whatever frame passed validation and the blink gate, so no
\* emitted GazePoint has a NaN coordinate.
C38_StoredPointsWellDefined ==
  /\ \A i \in 1..Len(gazeHistory) : WellDefinedPoint(gazeHistory[i])
  /\ lastEmit.valid => (~IsNaN(lastEmit.x) /\ ~IsNaN(lastEmit.y))

\* ------------------------------------------------------------------------
\* Properties of the linear fit
\* ------------------------------------------------------------------------

LinearCall == CalibrationStep /\ variant = "linear" /\ Len(lastOp'.points) > 0

\* The unit-normalized targets of the samples on one axis under viewport vp.
UnitTargets(points, axis, vp) ==
  [i \in 1..Len(points) |->
     IF axis = "x" THEN Sub(Div(Mul(I(2), points[i].actual.x), I(vp[1])), I(1))
                   ELSE Sub(Div(Mul(I(2), points[i].actual.y), I(vp[2])), I(1))]

\* The measured normalized values of the samples on one axis.
MeasuredUnits(points, axis, vp) ==
  [i \in 1..Len(points) |->
     IF axis = "x"
     THEN IF points[i].measured.hasNormalizedX THEN points[i].measured.normalizedX
          ELSE Sub(Div(Mul(I(2), points[i].measured.x), I(vp[1])), I(1))
     ELSE IF points[i].measured.hasNormalizedY THEN points[i].measured.normalizedY
          ELSE Sub(Div(Mul(I(2), points[i].measured.y), I(vp[2])), I(1))]

\* act = sc * meas + off on every sample.
ExactLine(act, meas, sc, off) ==
  \A i \in 1..Len(act) : act[i] = Add(Mul(sc, meas[i]), off)

\* The line through samples 1 and j.
SlopeThrough(act, meas, j) == Div(Sub(act[j], act[1]), Sub(meas[j], meas[1]))

InterceptThrough(act, meas, j) == Sub(act[1], Mul(SlopeThrough(act, meas, j), meas[1]))

\* (sc, off) solves the normal equations of the 1-D least squares of act on
\* meas: the residuals sum to zero and are orthogonal to meas.
NormalEquations(act, meas, sc, off) ==
  /\ SumSeq([i \in 1..Len(act) |-> Sub(Add(Mul(sc, meas[i]), off), act[i])]) = I(0)
  /\ SumSeq([i \in 1..Len(act) |-> Mul(Sub(Add(Mul(sc, meas[i]), off), act[i]), meas[i])]) = I(0)

\* The pair (sc, off) installed for an axis is the one its own data give.
AxisRecovered(act, meas, sc, off) ==
  \A j \in 1..Len(act) :
    meas[j] # meas[1] =>
      /\ NormalEquations(act, meas, sc, off)
      /\ ExactLine(act, meas, SlopeThrough(act, meas, j), InterceptThrough(act, meas, j))
           => (sc = SlopeThrough(act, meas, j) /\ off = InterceptThrough(act, meas, j))

\* C33: a linear-variant calibration whose unit-normalized targets are, on an
\* axis, an exact line over the measured normalized values (not all equal)
\* installs that line's scale and offset for the axis; each axis' pair is
\* the least-squares solution of that axis' own data, whatever the other
\* axis holds.
C33_LinearFitExactPerAxis ==
  [][LinearCall =>
       /\ AxisRecovered(UnitTargets(lastOp'.points, "x", viewport),
                        MeasuredUnits(lastOp'.points, "x", viewport),
                        calibrationMatrix'.scaleX, calibrationMatrix'.offsetX)
       /\ AxisRecovered(UnitTargets(lastOp'.points, "y", viewport),
                        MeasuredUnits(lastOp'.points, "y", viewport),
                        calibrationMatrix'.scaleY, calibrationMatrix'.offsetY)]_vars

\* The latest call's data are an exact line on the axis, with two distinct
\* measured values.
ExactAxis(axis) ==
  \E j \in 1..Len(lastOp.points) :
    /\ MeasuredUnits(lastOp.points, axis, viewport)[j] # MeasuredUnits(lastOp.points, axis, viewport)[1]
    /\ ExactLine(UnitTargets(lastOp.points, axis, viewport),
                 MeasuredUnits(lastOp.points, axis, viewport),
                 SlopeThrough(UnitTargets(lastOp.points, axis, viewport),
                              MeasuredUnits(lastOp.points, axis, viewport), j),
                 InterceptThrough(UnitTargets(lastOp.points, axis, viewport),
                                  MeasuredUnits(lastOp.points, axis, viewport), j))

\* C33 witness: the linear tracker has just fitted samples that are an exact
\* line on both axes, with different scales, neither of them 1, and offsets
\* other than 0.
C33_Witness ==
  /\ variant = "linear"
  /\ lastOp.op = "calibrate"
  /\ Len(lastOp.points) = 4
  /\ ExactAxis("x")
  /\ ExactAxis("y")
  /\ calibrationMatrix.scaleX # calibrationMatrix.scaleY
  /\ calibrationMatrix.scaleX # I(1)
  /\ calibrationMatrix.scaleY # I(1)
  /\ calibrationMatrix.offsetX # I(0)
  /\ calibrationMatrix.offsetY # I(0)

\* ------------------------------------------------------------------------
\* Properties of the sampling interval
\* ------------------------------------------------------------------------

\* A callback of the sampling interval ran.
IntervalStep == ticks' = ticks + 1

\* C32: a callback of the sampling interval appends one sample when a
\* GazePoint has been observed and none otherwise; the collection ends on
\* the callback that brings the buffer to exactly sampleCount samples, with
\* one entry pushed and the capture resolved; no other step appends to the
\* buffer or pushes an entry, none while the interval is cleared; and once
\* a GazePoint has been observed a polling collection ends.
C32_CollectionTerminates ==
  /\ [](capturePc = "polling" => Len(samples) < SampleCount)
  /\ [](Len(samples) <= SampleCount)
  /\ [][IntervalStep =>
          /\ capturePc = "polling"
          /\ Len(samples') = Len(samples) + (IF currentGaze.valid THEN 1 ELSE 0)
          /\ (capturePc' = "none") = (Len(samples') = SampleCount)
          /\ (capturePc' # "none") => (capturePc' = "polling" /\ calibrationData' = calibrationData)
          /\ (capturePc' = "none") =>
               /\ Len(calibrationData') = Len(calibrationData) + 1
               /\ captureLog'[Len(captureLog')].resolved
               /\ ~captureLog[Len(captureLog)].resolved]_vars
  /\ [][~IntervalStep =>
          /\ Len(samples') <= Len(samples)
          /\ Len(calibrationData') <= Len(calibrationData)]_vars
  /\ (capturePc = "polling" /\ currentGaze.valid) ~> (capturePc = "none")

\* C32 witness: the first collection of a run has ended with exactly
\* sampleCount samples after more callbacks than that (the first ones found
\* no GazePoint yet), and its entry is the only one.
C32_Witness ==
  /\ capturePc = "none"
  /\ Len(samples) = SampleCount
  /\ ticks > SampleCount
  /\ Len(calibrationData) = 1
  /\ Len(captureLog) = 1
  /\ captureLog[1].resolved

\* The objects the tracker has emitted since the target being collected was
\* displayed.
EmittedForTarget ==
  {Arrival(gazeStream, t, targetPoints[currentIndex + 1]) : t \in 1..(ticks + 1)}

\* C40: every sample in the buffer of the collection under way is an object
\* the tracker emitted after the target of that collection was displayed.
C40_SamplesPostdateTarget ==
  capturePc = "polling" =>
    \A i \in 1..Len(samples) : samples[i] \in EmittedForTarget

\* The second collection of a run has recorded the last object of the first
\* one, emitted while the first target was shown.
C40_StaleSample ==
  /\ capturePc = "polling"
  /\ Len(calibrationData) = 1
  /\ Len(samples) > 0
  /\ samples[1].normalizedX # Sub(Div(targetPoints[currentIndex + 1].x, I(30)), I(1))
  /\ samples[1] = validSamples[Len(validSamples)]

\* ------------------------------------------------------------------------
\* Properties of the cursor conditioner
\* ------------------------------------------------------------------------

Processed == ~isFirstGaze

WithinDeadZone ==
  /\ Le(MathAbs(Sub(smoothedX, displayX)), I(DEAD_ZONE_X))
  /\ Le(MathAbs(Sub(smoothedY, displayY)), I(DEAD_ZONE_Y))

\* C31: once a gaze update has been processed, the smoothed X is within 20 px
\* of the displayed X and the smoothed Y within 8 px of the displayed Y.
C31_WithinDeadZone == Processed => WithinDeadZone

\* The displayed coordinates move only out of the dead zone, each axis on its
\* own test, and a coordinate that moves becomes the smoothed value.
MovesOnlyOutOfZone ==
  [][/\ (~isFirstGaze /\ displayX' # displayX) =>
          (displayX' = smoothedX' /\ Gt(MathAbs(Sub(smoothedX', displayX)), I(DEAD_ZONE_X)))
     /\ (~isFirstGaze /\ displayY' # displayY) =>
          (displayY' = smoothedY' /\ Gt(MathAbs(Sub(smoothedY', displayY)), I(DEAD_ZONE_Y)))]_vars

\* The bound as long as every processed coordinate was a number.
FiniteWithinDeadZone == (Processed /\ ~IsNaN(smoothedX) /\ ~IsNaN(smoothedY)) => WithinDeadZone

\* One axis moved while the other stayed inside its zone.
OneAxisMoved ==
  /\ Processed
  /\ gazeUpdates >= 4
  /\ displayX = smoothedX
  /\ displayX # I(0)
  /\ displayY # smoothedY
  /\ WithinDeadZone

\* A NaN gaze has been processed: the smoothed pair is NaN from then on.
C31_CursorFrozen == Processed /\ IsNaN(smoothedX) /\ ~IsNaN(displayX)

\* ------------------------------------------------------------------------
\* Properties of startCamera and stopCamera
\* ------------------------------------------------------------------------

\* The startCamera() calls that are still awaiting.
InProgress ==
  {i \in 1..Len(calls) : calls[i] \in {"camera", "video", "initializing", "starting", "calibrating"}}

\* C34: at most one start-up is in progress or active: never two
\* startCamera() calls awaiting, never one awaiting while tracking is
\* active, never two calibration runs at once.
C34_SingleStartup ==
  /\ Cardinality(InProgress) <= 1
  /\ isActive => InProgress = {}
  /\ Cardinality(startRuns) <= 1

\* Two calls, each with a tracker of its own, are calibrating at once.
C34_TwoRuns ==
  /\ ~isActive
  /\ Cardinality(startRuns) = 2
  /\ Cardinality(liveTrackers) = 2
  /\ Cardinality(liveStreams) = 2

\* C39: when no start-up is in progress and tracking is not active, no
\* camera stream has live tracks.
C39_StreamReleased == (InProgress = {} /\ ~isActive) => liveStreams = {}

\* The only call failed after the camera was granted; its stream is live.
C39_StreamLeaked ==
  /\ calls = <<"failed">>
  /\ ~isActive
  /\ stream = 1
  /\ liveStreams = {1}

\* STOP_TRACKING on a state without a start-up in progress leaves no live stream.
StopReleases ==
  [][(InProgress = {} /\ StopTracking) => liveStreams' = {}]_vars

\* ------------------------------------------------------------------------
\* Properties of the background script
\* ------------------------------------------------------------------------

\* C36: whenever state.isActive is true, state.currentTabId is defined.
C36_ActiveHasTab == state.isActive => state.currentTabId # 0

\* The START_TRACKING callback ran after a STOP_TRACKING callback had
\* cleared the tab recorded by the same start.
C36_ActiveWithoutTab ==
  /\ state.isActive
  /\ state.currentTabId = 0
  /\ closedTabs = {}
  /\ lastStop.to # 0
  /\ lastStop.to = lastStop.recorded

\* C37: a STOP_TRACKING whose callback cleared a recorded currentTabId was
\* delivered to that tab.
C37_StopReachesRecordedTab ==
  (lastStop.to # 0 /\ lastStop.recorded # 0) => lastStop.to = lastStop.recorded

\* Tracking was active on one tab and the stop went to another, open, tab.
C37_StopWentElsewhere ==
  /\ lastStop.to # 0
  /\ lastStop.recorded # 0
  /\ lastStop.to # lastStop.recorded
  /\ lastStop.recorded \notin closedTabs
  /\ ~state.isActive
  /\ state.currentTabId = 0

====
